---- MODULE Spec2Model ----
(***************************************************************************)
(* The reconnecting WebSocket session of superchain-client                 *)
(* (src/rust/src/providers/ws.rs): the WsProvider handle, the              *)
(* BackgroundWorker event loop with its three registries, the reconnection *)
(* loop and the per-subscription unbounded channels.                       *)
(***************************************************************************)
EXTENDS Integers, Sequences, FiniteSets, TLC

(***************************************************************************)
(* Bounds of the model.                                                    *)
(***************************************************************************)
\* number of items the worker forwards to sinks, over all sinks
MaxFrames == 2
\* number of WsProvider clones alive at once
MaxHandles == 2
\* number of disconnect episodes (entries into attempt_reconnect) explored
MaxEpisodes == 1
\* the bits of the integers a Bound holds (64 in the program)
IntBits == 5

(***************************************************************************)
(* Program constants.                                                      *)
(***************************************************************************)
\* for _ in 0..100 in attempt_reconnect
RECONNECT_ATTEMPTS == 100

(***************************************************************************)
(* Values.                                                                 *)
(***************************************************************************)
\* Uuid::new_v4() yields a fresh value on every call and ids are only ever
\* compared for equality: the k-th call of request is given the k-th id of
\* IdSeq, and no further call is explored.
IdSeq == <<"A", "B">>
Ids == {IdSeq[k] : k \in 1..Len(IdSeq)}
\* every request call creates one mpsc::unbounded() channel; channel k
\* belongs to call k
Chans == 1..Len(IdSeq)
\* HashMap::get(..) = None for subscriptions
NoSink == 0
\* Option<String>::None for a header's cursor, and an absent key of
\* subscription_cursor
NoCursor == "none"
Cursors == {"10", "20"}
\* payload bytes: 8 bytes of text, the empty payload, one byte that is not
\* UTF-8
Height8 == <<72, 69, 73, 71, 72, 84, 48, 49>>
Payloads == {<<>>, Height8, <<255>>}
Operations == {"getStatus", "getBlocks"}
Formats == {"json_stream"}
Kinds == {"Start", "Continue", "ContinueWithError", "End", "Error", "Subscription"}

\* struct Request
Request(id, operation, format, deltas, cursor) ==
    [id |-> id, operation |-> operation, format |-> format, deltas |-> deltas,
     cursor |-> cursor]
\* an absent key of subscription_requests
NoRequest == Request("none", "none", "none", FALSE, "")

\* struct Header (kind, id, cursor; the counter and the epoch are never read)
Headers == [kind : Kinds, id : Ids, cursor : Cursors \cup {NoCursor}]

\* tungstenite::Message as the worker reads it.  A Binary message either
\* decodes (Header::try_from_data) into a header and a payload or does not.
BinaryFrames == [type : {"Binary"}, parse : {"Ok"}, header : Headers, data : Payloads]
MalformedFrames == [type : {"Binary"}, parse : {"NoNewline", "BadHeader"}]
ControlMessages == [type : {"Text", "Frame", "Ping", "Pong", "Close"}]
InMessages == BinaryFrames \cup MalformedFrames \cup ControlMessages

\* WsResult = Result<Vec<u8>>
Ok(data) == [tag |-> "Ok", data |-> data]
Err(e, data) == [tag |-> e, data |-> data]

\* messages the worker writes to the socket
WPing == [type |-> "Ping", req |-> NoRequest]
WPong == [type |-> "Pong", req |-> NoRequest]
WBinary(req) == [type |-> "Binary", req |-> req]

VARIABLES
    pc,                     \* position of main_loop
    attempts,               \* iterations of the for loop of attempt_reconnect done
    tickDue,                \* ping_interval.tick() is ready
    handles,                \* live WsProvider clones (senders of operations)
    calls,                  \* result of each request call so far
    operations,             \* the queue WsProvider.operations -> worker
    subscriptions,          \* BackgroundWorker.subscriptions
    subscription_requests,  \* BackgroundWorker.subscription_requests
    subscription_cursor,    \* BackgroundWorker.subscription_cursor
    channels,               \* the mpsc channel of each call: queue, tx, rx
    wrote,                  \* messages the worker's latest step wrote to the socket
    sent,                   \* history: items unbounded_send accepted, per channel,
                            \*   each with the episode count it was accepted at
    yielded,                \* history: items the caller's stream yielded
    over,                   \* the caller's stream returned None
    seen,                   \* history: cursor of the last Continue frame bearing one
    epoch,                  \* history: disconnect episodes so far
    codec_in,               \* the argument a codec function is applied to
    codec_out,              \* the value it returned, "none" before the call
    done                    \* legacy worker: Fuse of operations has returned None

vars == <<pc, attempts, tickDue, handles, calls, operations, subscriptions,
          subscription_requests, subscription_cursor, channels, wrote, sent,
          yielded, over, seen, epoch, codec_in, codec_out, done>>

workerVars == <<subscriptions, subscription_requests, subscription_cursor>>
clientVars == <<handles, calls, yielded, over>>
codecVars == <<codec_in, codec_out>>

(***************************************************************************)
(* Helpers.                                                                *)
(***************************************************************************)
\* the channel state a call starts with, and the state of a channel whose
\* call never happened or failed
NewChannel == [queue |-> <<>>, tx |-> TRUE, rx |-> TRUE]
NoChannel == [queue |-> <<>>, tx |-> FALSE, rx |-> FALSE]

\* CloseSink that leaves the sender open
CloseSinkNoop(chs, c) == chs

\* UnboundedSender::close_channel, and the drop of the only sender
CloseSink(chs, c) == IF c = NoSink THEN chs ELSE [chs EXCEPT ![c].tx = FALSE]

\* the Receiver is gone: UnboundedSender::unbounded_send fails, disconnected
IsDisconnected(c) == ~channels[c].rx

\* items forwarded to sinks so far, over all sinks
RECURSIVE SumLen(_, _)
SumLen(f, S) ==
    IF S = {} THEN 0
    ELSE LET c == CHOOSE x \in S : TRUE IN Len(f[c]) + SumLen(f, S \ {c})
TotalSent == SumLen(sent, Chans)

Init ==
    /\ pc = "connected"
    /\ attempts = 0
    /\ tickDue = TRUE
    /\ handles = 1
    /\ calls = <<>>
    /\ operations = <<>>
    /\ subscriptions = [i \in Ids |-> NoSink]
    /\ subscription_requests = [i \in Ids |-> NoRequest]
    /\ subscription_cursor = [i \in Ids |-> NoCursor]
    /\ channels = [c \in Chans |-> NoChannel]
    /\ wrote = {}
    /\ sent = [c \in Chans |-> <<>>]
    /\ yielded = [c \in Chans |-> <<>>]
    /\ over = [c \in Chans |-> FALSE]
    /\ seen = [i \in Ids |-> NoCursor]
    /\ epoch = 0
    /\ codec_in = [tag |-> "none"]
    /\ codec_out = [tag |-> "none"]
    /\ done = FALSE

(***************************************************************************)
(* The caller's side: WsProvider and the stream request returns.           *)
(***************************************************************************)
\* the receiver of operations lives in the worker until main_loop returns
BackendAlive == pc # "terminated"

\* WsProvider::clone (derive(Clone))
CloneHandle ==
    /\ handles > 0
    /\ handles < MaxHandles
    /\ handles' = handles + 1
    /\ UNCHANGED <<codecVars, done, pc, attempts, tickDue, calls, operations, workerVars,
                   channels, wrote, sent, yielded, over, seen, epoch>>

\* drop of a WsProvider
DropHandle ==
    /\ handles > 0
    /\ handles' = handles - 1
    /\ UNCHANGED <<codecVars, done, pc, attempts, tickDue, calls, operations, workerVars,
                   channels, wrote, sent, yielded, over, seen, epoch>>

\* RequestResult with the failure of unbounded_send ignored
RequestNeverFails == "Stream"

\* the result of unbounded_send on operations, mapped by request
RequestResult == IF BackendAlive THEN "Stream" ELSE "BackendShutDown"

\* WsProvider::request on any live handle, with id the value Uuid::new_v4()
\* returns
request_id(id, operation, format, deltas) ==
    /\ handles > 0
    /\ Len(calls) < Len(IdSeq)
    /\ LET k == Len(calls) + 1 IN
       /\ calls' = Append(calls, RequestResult)
       /\ IF RequestResult = "Stream"
          THEN /\ operations' = Append(operations,
                     [id |-> id, operation |-> operation, format |-> format,
                      deltas |-> deltas, sink |-> k])
               /\ channels' = [channels EXCEPT ![k] = NewChannel]
          ELSE UNCHANGED <<operations, channels>>
    /\ UNCHANGED <<codecVars, done, pc, attempts, tickDue, handles, workerVars, wrote,
                   sent, yielded, over, seen, epoch>>

\* WsProvider::request when Uuid::new_v4() returns a value it never returned
\* before
request(operation, format, deltas) ==
    request_id(IdSeq[Len(calls) + 1], operation, format, deltas)

\* WsProvider::ready
ready == BackendAlive

\* StreamFilter without the is_empty test: every item is passed on
StreamFilterPassesEmpty(item) == <<item>>

\* StreamFilter with Err(e) => None: error items are swallowed too
StreamFilterLossy(item) ==
    IF item.tag = "Ok" /\ item.data # <<>> THEN <<item>> ELSE <<>>

\* the filter_map of request: an empty Ok chunk is swallowed
StreamFilter(item) == IF item.tag = "Ok" /\ item.data = <<>> THEN <<>> ELSE <<item>>

\* the caller polls the stream of call c: the next queued item, or None once
\* the queue is empty and no sender is left
StreamNext(c) ==
    /\ channels[c].rx
    /\ ~over[c]
    /\ IF channels[c].queue # <<>>
       THEN /\ channels' = [channels EXCEPT ![c].queue = Tail(@)]
            /\ yielded' = [yielded EXCEPT
                             ![c] = @ \o StreamFilter(Head(channels[c].queue))]
            /\ over' = over
       ELSE /\ ~channels[c].tx
            /\ over' = [over EXCEPT ![c] = TRUE]
            /\ UNCHANGED <<channels, yielded>>
    /\ UNCHANGED <<codecVars, done, pc, attempts, tickDue, handles, calls, operations,
                   workerVars, wrote, sent, seen, epoch>>

\* the caller drops the stream of call c
DropStream(c) ==
    /\ channels[c].rx
    /\ channels' = [channels EXCEPT ![c].rx = FALSE, ![c].queue = <<>>]
    /\ UNCHANGED <<codecVars, done, pc, attempts, tickDue, handles, calls, operations,
                   workerVars, wrote, sent, yielded, over, seen, epoch>>

(***************************************************************************)
(* The worker: BackgroundWorker::main_loop and what it calls.              *)
(***************************************************************************)
\* String::from_utf8 succeeds; the payloads of the model are ASCII bytes or
\* the byte 0xFF, which no UTF-8 text contains
IsUtf8(data) == \A i \in 1..Len(data) : data[i] < 128

\* data.first() == Some(b'{')
StartsWithBrace(data) == Len(data) > 0 /\ data[1] = 123

\* serde_json::from_slice::<ResponseError> succeeds:
\* {"status":404,"error":"not found"} is the one structured error body of the
\* model
ResponseError404 ==
    <<123, 34, 115, 116, 97, 116, 117, 115, 34, 58, 52, 48, 52, 44, 34, 101, 114,
      114, 111, 114, 34, 58, 34, 110, 111, 116, 32, 102, 111, 117, 110, 100, 34,
      125>>
\* {"a":1}: JSON text that starts with a brace and has no status and no error
BraceText == <<123, 34, 97, 34, 58, 49, 125>>
ParsesAsResponseError(data) == data = ResponseError404

\* the msg of handle_binary for the kinds that forward one
MsgOf(kind, data) ==
    CASE kind = "Continue" -> Ok(data)
      [] kind = "ContinueWithError" ->
            IF StartsWithBrace(data)
            THEN IF ParsesAsResponseError(data)
                 THEN Err("ErrorResponse", data)
                 ELSE Err("UnexpectedMessageFormat", <<>>)
            ELSE IF IsUtf8(data)
                 THEN Err("ErrorMsg", data)
                 ELSE Err("UnexpectedMessageFormat", <<>>)
      [] kind = "Error" ->
            IF IsUtf8(data)
            THEN Err("ErrorMsg", data)
            ELSE Err("UnexpectedMessageFormat", <<>>)
      [] OTHER -> Err("UnexpectedMessageFormat", <<>>)

\* CursorAfter with the update moved out of the Kind::Continue arm
CursorAfterAnyKind(h) ==
    IF h.cursor # NoCursor
    THEN [subscription_cursor EXCEPT ![h.id] = h.cursor]
    ELSE subscription_cursor

\* subscription_cursor after a frame with this header (Kind::Continue arm)
CursorAfter(h) ==
    IF h.kind = "Continue" /\ h.cursor # NoCursor
    THEN [subscription_cursor EXCEPT ![h.id] = h.cursor]
    ELSE subscription_cursor

\* the sink a frame for id is routed to (subscriptions.entry(id))
SinkOf(id) == subscriptions[id]

\* the frame is one whose msg handle_binary routes to a sink
Routed(m) ==
    /\ m.type = "Binary"
    /\ m.parse = "Ok"
    /\ m.header.kind \notin {"Start", "End"}

\* the frame puts one more item into a sink
Forwards(m) ==
    /\ Routed(m)
    /\ SinkOf(m.header.id) # NoSink
    /\ ~IsDisconnected(SinkOf(m.header.id))

\* Route with the lookup by id lost: msg goes to every registered sink
RouteBroadcast(id, msg) ==
    /\ channels' = [c \in Chans |->
          IF (\E i \in Ids : subscriptions[i] = c) /\ channels[c].rx
          THEN [channels[c] EXCEPT !.queue = Append(@, msg)]
          ELSE channels[c]]
    /\ sent' = [c \in Chans |->
          IF (\E i \in Ids : subscriptions[i] = c) /\ channels[c].rx
          THEN Append(sent[c], [item |-> msg, epoch |-> epoch])
          ELSE sent[c]]
    /\ subscriptions' = subscriptions

\* Route that removes the entry once its sink has taken an error item
RouteRemovesOnError(id, msg) ==
    LET c == SinkOf(id) IN
    IF c = NoSink
    THEN UNCHANGED <<subscriptions, channels, sent>>
    ELSE IF IsDisconnected(c)
    THEN /\ subscriptions' = [subscriptions EXCEPT ![id] = NoSink]
         /\ channels' = CloseSink(channels, c)
         /\ sent' = sent
    ELSE /\ channels' = IF msg.tag = "Ok"
                        THEN [channels EXCEPT ![c].queue = Append(@, msg)]
                        ELSE [channels EXCEPT ![c].queue = Append(@, msg),
                                              ![c].tx = FALSE]
         /\ sent' = [sent EXCEPT ![c] = Append(@, [item |-> msg, epoch |-> epoch])]
         /\ subscriptions' = IF msg.tag = "Ok" THEN subscriptions
                             ELSE [subscriptions EXCEPT ![id] = NoSink]

\* Route over a channel of capacity one: the send waits while the sink holds
\* an item its caller has not taken
RouteBounded(id, msg) ==
    LET c == SinkOf(id) IN
    IF c = NoSink
    THEN UNCHANGED <<subscriptions, channels, sent>>
    ELSE IF IsDisconnected(c)
    THEN /\ subscriptions' = [subscriptions EXCEPT ![id] = NoSink]
         /\ channels' = CloseSink(channels, c)
         /\ sent' = sent
    ELSE /\ channels[c].queue = <<>>
         /\ channels' = [channels EXCEPT ![c].queue = Append(@, msg)]
         /\ sent' = [sent EXCEPT ![c] = Append(@, [item |-> msg, epoch |-> epoch])]
         /\ subscriptions' = subscriptions

\* Route that treats a disconnected sink as the end of the session: every
\* registered sink is closed and removed
RouteTearsDown(id, msg) ==
    LET c == SinkOf(id) IN
    IF c = NoSink
    THEN UNCHANGED <<subscriptions, channels, sent>>
    ELSE IF IsDisconnected(c)
    THEN /\ subscriptions' = [i \in Ids |-> NoSink]
         /\ channels' = [d \in Chans |->
               IF \E i \in Ids : subscriptions[i] = d
               THEN [channels[d] EXCEPT !.tx = FALSE]
               ELSE channels[d]]
         /\ sent' = sent
    ELSE /\ channels' = [channels EXCEPT ![c].queue = Append(@, msg)]
         /\ sent' = [sent EXCEPT ![c] = Append(@, [item |-> msg, epoch |-> epoch])]
         /\ subscriptions' = subscriptions

\* the tail of handle_binary: route msg to the sink registered for id
Route(id, msg) ==
    LET c == SinkOf(id) IN
    IF c = NoSink
    THEN UNCHANGED <<subscriptions, channels, sent>>
    ELSE IF IsDisconnected(c)
    THEN /\ subscriptions' = [subscriptions EXCEPT ![id] = NoSink]
         /\ channels' = CloseSink(channels, c)
         /\ sent' = sent
    ELSE /\ channels' = [channels EXCEPT ![c].queue = Append(@, msg)]
         /\ sent' = [sent EXCEPT ![c] = Append(@, [item |-> msg, epoch |-> epoch])]
         /\ subscriptions' = subscriptions

\* handle_binary with Kind::Error handled as Kind::End: the entry is
\* removed and its sink closed
handle_binaryErrorEnds(m) ==
    IF m.parse # "Ok"
    THEN UNCHANGED <<workerVars, channels, sent>>
    ELSE LET h == m.header IN
         CASE h.kind = "Start" ->
                UNCHANGED <<workerVars, channels, sent>>
           [] h.kind \in {"End", "Error"} ->
                /\ subscriptions' = [subscriptions EXCEPT ![h.id] = NoSink]
                /\ channels' = CloseSink(channels, subscriptions[h.id])
                /\ UNCHANGED <<subscription_requests, subscription_cursor, sent>>
           [] OTHER ->
                /\ subscription_cursor' = CursorAfter(h)
                /\ Route(h.id, MsgOf(h.kind, m.data))
                /\ UNCHANGED subscription_requests

\* handle_binary whose Kind::End arm closes the sink and leaves the entry in
\* the registry
handle_binaryEndKeepsEntry(m) ==
    IF m.parse # "Ok"
    THEN UNCHANGED <<workerVars, channels, sent>>
    ELSE LET h == m.header IN
         CASE h.kind = "Start" ->
                UNCHANGED <<workerVars, channels, sent>>
           [] h.kind = "End" ->
                /\ channels' = CloseSink(channels, subscriptions[h.id])
                /\ UNCHANGED <<workerVars, sent>>
           [] OTHER ->
                /\ subscription_cursor' = CursorAfter(h)
                /\ Route(h.id, MsgOf(h.kind, m.data))
                /\ UNCHANGED subscription_requests

\* BackgroundWorker::handle_binary
handle_binary(m) ==
    IF m.parse # "Ok"
    THEN UNCHANGED <<workerVars, channels, sent>>
    ELSE LET h == m.header IN
         CASE h.kind = "Start" ->
                UNCHANGED <<workerVars, channels, sent>>
           [] h.kind = "End" ->
                /\ subscriptions' = [subscriptions EXCEPT ![h.id] = NoSink]
                /\ channels' = CloseSink(channels, subscriptions[h.id])
                /\ UNCHANGED <<subscription_requests, subscription_cursor, sent>>
           [] OTHER ->
                /\ subscription_cursor' = CursorAfter(h)
                /\ Route(h.id, MsgOf(h.kind, m.data))
                /\ UNCHANGED subscription_requests

\* BackgroundWorker::handle, with handle_ping: the state it changes
handle(m) ==
    IF m.type = "Binary"
    THEN handle_binary(m)
    ELSE UNCHANGED <<workerVars, channels, sent>>

\* what handle writes to the socket: the Pong of handle_ping, when that
\* write succeeds
HandleWrites(m, ok) == IF m.type = "Ping" /\ ok THEN {WPong} ELSE {}

\* HandleResult with an End frame for an id that has no entry reported as an
\* error
HandleResultEndStrict(m, ok) ==
    CASE m.type = "Text" -> "UnexpectedMessage"
      [] m.type = "Close" -> "UnexpectedClose"
      [] m.type = "Ping" -> IF ok THEN "none" ELSE "Tungstenite"
      [] m.type = "Binary" ->
            IF m.parse = "NoNewline" THEN "UnexpectedMessageFormat"
            ELSE IF m.parse = "BadHeader" THEN "SerdeJson"
            ELSE IF m.header.kind = "End" /\ SinkOf(m.header.id) = NoSink
                 THEN "Custom"
            ELSE IF /\ Routed(m)
                    /\ SinkOf(m.header.id) # NoSink
                    /\ IsDisconnected(SinkOf(m.header.id))
                 THEN "Custom"
                 ELSE "none"
      [] OTHER -> "none"

\* the Result of handle, which main_loop only logs: "none" for Ok(())
HandleResult(m, ok) ==
    CASE m.type = "Text" -> "UnexpectedMessage"
      [] m.type = "Close" -> "UnexpectedClose"
      [] m.type = "Ping" -> IF ok THEN "none" ELSE "Tungstenite"
      [] m.type = "Binary" ->
            IF m.parse = "NoNewline" THEN "UnexpectedMessageFormat"
            ELSE IF m.parse = "BadHeader" THEN "SerdeJson"
            ELSE IF /\ Routed(m)
                    /\ SinkOf(m.header.id) # NoSink
                    /\ IsDisconnected(SinkOf(m.header.id))
                 THEN "Custom"
                 ELSE "none"
      [] OTHER -> "none"

\* Tick that ends the loop once every handle is dropped and no subscription
\* is registered, as the legacy is_done does
TickStopsWhenIdle(ok) ==
    /\ pc = "connected"
    /\ tickDue
    /\ tickDue' = FALSE
    /\ wrote' = IF ok THEN {WPing} ELSE {}
    /\ pc' = IF handles = 0 /\ \A i \in Ids : subscriptions[i] = NoSink
             THEN "terminated"
             ELSE pc
    /\ UNCHANGED <<codecVars, done, attempts, clientVars, operations, workerVars,
                   channels, sent, seen, epoch>>

\* Tick that takes a failed Ping for a failed socket and starts reconnection
TickFatal(ok) ==
    /\ pc = "connected"
    /\ tickDue
    /\ tickDue' = FALSE
    /\ wrote' = IF ok THEN {WPing} ELSE {}
    /\ pc' = IF ok THEN pc ELSE "reconnecting"
    /\ UNCHANGED <<codecVars, done, attempts, clientVars, operations, workerVars,
                   channels, sent, seen, epoch>>

\* main_loop, first arm of select_biased: the keep-alive tick; the write of
\* the Ping succeeds or fails
Tick(ok) ==
    /\ pc = "connected"
    /\ tickDue
    /\ tickDue' = FALSE
    /\ wrote' = IF ok THEN {WPing} ELSE {}
    /\ UNCHANGED <<codecVars, done, pc, attempts, clientVars, operations, workerVars,
                   channels, sent, seen, epoch>>

\* the cursor operate puts into the request it builds
OperateCursor(id) ==
    IF subscription_cursor[id] # NoCursor THEN subscription_cursor[id] ELSE ""

\* ReplaceSink that keeps the sender it replaces alive
ReplaceSinkLeaks(old, new) == channels

\* subscriptions.insert(id, sink) in operate: the sender it returns, if any,
\* is dropped
ReplaceSink(old, new) == IF old = new THEN channels ELSE CloseSink(channels, old)

\* operate that keeps the entry of an operation whose write failed
operateKeepsFailed(ok) ==
    LET o == Head(operations)
        req == Request(o.id, o.operation, o.format, o.deltas, OperateCursor(o.id))
        old == subscriptions[o.id]
        replaced == ReplaceSink(old, o.sink)
    IN
    /\ operations' = Tail(operations)
    /\ subscription_requests' = [subscription_requests EXCEPT ![o.id] = req]
    /\ subscriptions' = [subscriptions EXCEPT ![o.id] = o.sink]
    /\ channels' = replaced
    /\ wrote' = IF ok THEN {WBinary(req)} ELSE {}
    /\ UNCHANGED <<codecVars, done, pc, attempts, tickDue, clientVars, subscription_cursor,
                   sent, seen, epoch>>

\* operate that registers the sink without retaining the request
operateForgetsRequest(ok) ==
    LET o == Head(operations)
        req == Request(o.id, o.operation, o.format, o.deltas, OperateCursor(o.id))
        old == subscriptions[o.id]
        replaced == ReplaceSink(old, o.sink)
    IN
    /\ operations' = Tail(operations)
    /\ subscription_requests' = subscription_requests
    /\ IF ok
       THEN /\ subscriptions' = [subscriptions EXCEPT ![o.id] = o.sink]
            /\ channels' = replaced
            /\ wrote' = {WBinary(req)}
       ELSE /\ subscriptions' = [subscriptions EXCEPT ![o.id] = NoSink]
            /\ channels' = CloseSink(replaced, o.sink)
            /\ wrote' = {}
    /\ UNCHANGED <<codecVars, done, pc, attempts, tickDue, clientVars,
                   subscription_cursor, sent, seen, epoch>>

\* BackgroundWorker::operate on the next queued operation; the write to the
\* socket succeeds or fails
operate(ok) ==
    LET o == Head(operations)
        req == Request(o.id, o.operation, o.format, o.deltas, OperateCursor(o.id))
        old == subscriptions[o.id]
        replaced == ReplaceSink(old, o.sink)
    IN
    /\ operations' = Tail(operations)
    /\ subscription_requests' = [subscription_requests EXCEPT ![o.id] = req]
    /\ IF ok
       THEN /\ subscriptions' = [subscriptions EXCEPT ![o.id] = o.sink]
            /\ channels' = replaced
            /\ wrote' = {WBinary(req)}
       ELSE /\ subscriptions' = [subscriptions EXCEPT ![o.id] = NoSink]
            /\ channels' = CloseSink(replaced, o.sink)
            /\ wrote' = {}
    /\ UNCHANGED <<codecVars, done, pc, attempts, tickDue, clientVars, subscription_cursor,
                   sent, seen, epoch>>

\* main_loop, second arm: a queued operation, when no tick is due
Operate(ok) ==
    /\ pc = "connected"
    /\ ~tickDue
    /\ operations # <<>>
    /\ operate(ok)

\* the cursor of the last Continue frame bearing one, per id, after m
SeenAfter(m) ==
    IF /\ m.type = "Binary"
       /\ m.parse = "Ok"
       /\ m.header.kind = "Continue"
       /\ m.header.cursor # NoCursor
    THEN [seen EXCEPT ![m.header.id] = m.header.cursor]
    ELSE seen

\* Inbound under a select without bias: the message is handled whatever else
\* is ready
InboundUnbiased(m, ok) ==
    /\ pc = "connected"
    /\ Forwards(m) => TotalSent < MaxFrames
    /\ UNCHANGED <<codecVars, done, pc, attempts, tickDue, clientVars, operations, epoch>>
    /\ seen' = SeenAfter(m)
    /\ wrote' = HandleWrites(m, ok)
    /\ handle(m)

\* main_loop, third arm, Ok(Some(message)): when no tick is due and no
\* operation is queued
Inbound(m, ok) ==
    /\ pc = "connected"
    /\ ~tickDue
    /\ operations = <<>>
    /\ Forwards(m) => TotalSent < MaxFrames
    /\ UNCHANGED <<codecVars, done, pc, attempts, tickDue, clientVars, operations, epoch>>
    /\ seen' = SeenAfter(m)
    /\ wrote' = HandleWrites(m, ok)
    /\ handle(m)

\* main_loop, third arm, Ok(None) and Err(e): attempt_reconnect is entered
ReadFailure ==
    /\ pc = "connected"
    /\ ~tickDue
    /\ operations = <<>>
    /\ epoch < MaxEpisodes
    /\ pc' = "reconnecting"
    /\ attempts' = 0
    /\ wrote' = {}
    /\ epoch' = epoch + 1
    /\ UNCHANGED <<codecVars, done, tickDue, clientVars, operations, workerVars, channels,
                   sent, seen>>

\* BudgetExhausted with the loop written 0..99
BudgetOffByOne == attempts >= RECONNECT_ATTEMPTS - 1

\* the for loop of attempt_reconnect has run out
BudgetExhausted == attempts >= RECONNECT_ATTEMPTS

\* attempt_reconnect: connect_async fails, then the 5 s sleep
ConnectFailed ==
    /\ pc = "reconnecting"
    /\ ~BudgetExhausted
    /\ attempts' = attempts + 1
    /\ wrote' = {}
    /\ UNCHANGED <<codecVars, done, pc, tickDue, clientVars, operations, workerVars,
                   channels, sent, seen, epoch>>

\* the ids attempt_reconnect resends: the keys of subscription_requests
ReplayIds == {i \in Ids : subscription_requests[i] # NoRequest}

\* ReplayCursor without the lookup in subscription_cursor: the request is
\* resent as it was first sent
ReplayCursorStale(id) == subscription_requests[id].cursor

\* the cursor of the resend for id
ReplayCursor(id) ==
    IF subscription_cursor[id] # NoCursor
    THEN subscription_cursor[id]
    ELSE subscription_requests[id].cursor

\* the request resent for id
ReplayRequest(id) ==
    [subscription_requests[id] EXCEPT !.cursor = ReplayCursor(id)]

\* ReplayRegistry that starts the new connection with an empty registry
ReplayForgets ==
    /\ subscriptions' = [i \in Ids |-> NoSink]
    /\ UNCHANGED <<subscription_requests, subscription_cursor, channels, sent>>

\* ReplayRegistry that closes every registered sink, as a shutdown would
ReplayClosesSinks ==
    /\ channels' = [c \in Chans |->
          IF \E i \in Ids : subscriptions[i] = c
          THEN [channels[c] EXCEPT !.tx = FALSE]
          ELSE channels[c]]
    /\ UNCHANGED <<workerVars, sent>>

\* what attempt_reconnect does to the registries and the sinks: nothing
ReplayRegistry == UNCHANGED <<workerVars, channels, sent>>

\* ConnectOk that also writes the requests of the operations still queued
ConnectOkDrainsQueue(failed) ==
    /\ pc = "reconnecting"
    /\ ~BudgetExhausted
    /\ failed \subseteq ReplayIds
    /\ pc' = "connected"
    /\ attempts' = 0
    /\ wrote' = {WBinary(ReplayRequest(i)) : i \in ReplayIds \ failed}
                \cup {WBinary(Request(operations[k].id, operations[k].operation,
                                      operations[k].format, operations[k].deltas, "")) :
                         k \in 1..Len(operations)}
    /\ ReplayRegistry
    /\ UNCHANGED <<codecVars, done, tickDue, clientVars, operations, seen, epoch>>

\* ConnectOk that gives the connection up at the first resend that fails:
\* nothing more is written and the attempt counts as failed
ConnectOkAborts(failed) ==
    /\ pc = "reconnecting"
    /\ ~BudgetExhausted
    /\ failed \subseteq ReplayIds
    /\ pc' = IF failed = {} THEN "connected" ELSE "reconnecting"
    /\ attempts' = IF failed = {} THEN 0 ELSE attempts + 1
    /\ wrote' = IF failed = {}
                THEN {WBinary(ReplayRequest(i)) : i \in ReplayIds}
                ELSE {}
    /\ ReplayRegistry
    /\ UNCHANGED <<codecVars, done, tickDue, clientVars, operations, seen, epoch>>

\* attempt_reconnect: connect_async succeeds; every retained request is
\* resent; the writes for the ids in failed fail and are only logged
ConnectOk(failed) ==
    /\ pc = "reconnecting"
    /\ ~BudgetExhausted
    /\ failed \subseteq ReplayIds
    /\ pc' = "connected"
    /\ attempts' = 0
    /\ wrote' = {WBinary(ReplayRequest(i)) : i \in ReplayIds \ failed}
    /\ ReplayRegistry
    /\ UNCHANGED <<codecVars, done, tickDue, clientVars, operations, seen, epoch>>

\* attempt_reconnect returns false and main_loop breaks: the worker, with its
\* socket, its receiver of operations (and the operations still queued) and
\* its registries, is dropped
GiveUp ==
    /\ pc = "reconnecting"
    /\ BudgetExhausted
    /\ pc' = "terminated"
    /\ attempts' = 0
    /\ tickDue' = FALSE
    /\ operations' = <<>>
    /\ subscriptions' = [i \in Ids |-> NoSink]
    /\ subscription_requests' = [i \in Ids |-> NoRequest]
    /\ subscription_cursor' = [i \in Ids |-> NoCursor]
    /\ channels' = [c \in Chans |-> [channels[c] EXCEPT !.tx = FALSE]]
    /\ wrote' = {}
    /\ seen' = [i \in Ids |-> NoCursor]
    /\ UNCHANGED <<codecVars, done, clientVars, sent, epoch>>

\* the 30 s interval elapses
TimerFires ==
    /\ BackendAlive
    /\ ~tickDue
    /\ tickDue' = TRUE
    /\ UNCHANGED <<codecVars, done, pc, attempts, clientVars, operations, workerVars,
                   channels, wrote, sent, seen, epoch>>

(***************************************************************************)
(* The program under every environment of the model.                       *)
(***************************************************************************)
Next ==
    \/ CloneHandle
    \/ DropHandle
    \/ \E op \in Operations, f \in Formats : request(op, f, FALSE)
    \/ \E c \in Chans : StreamNext(c)
    \/ \E c \in Chans : DropStream(c)
    \/ TimerFires
    \/ \E ok \in BOOLEAN : Tick(ok)
    \/ \E ok \in BOOLEAN : Operate(ok)
    \/ \E m \in InMessages : \E ok \in BOOLEAN : Inbound(m, ok)
    \/ ReadFailure
    \/ ConnectFailed
    \/ \E failed \in SUBSET Ids : ConnectOk(failed)
    \/ GiveUp

Spec == Init /\ [][Next]_vars

(***************************************************************************)
(* The same program under smaller environments: each specification below   *)
(* takes its steps from the actions above and draws the inbound messages   *)
(* and the outcomes of the socket writes from the sets its claims are      *)
(* about.                                                                  *)
(***************************************************************************)
\* a well-formed binary frame
Frame(kind, id, cursor, data) ==
    [type |-> "Binary", parse |-> "Ok",
     header |-> [kind |-> kind, id |-> id, cursor |-> cursor], data |-> data]

\* one connection: Continue frames with and without payload, Error and End
StreamFrames ==
    {Frame("Continue", i, NoCursor, d) : i \in Ids, d \in {<<>>, Height8}}
    \cup {Frame("Error", i, NoCursor, Height8) : i \in Ids}
    \cup {Frame("End", i, NoCursor, <<>>) : i \in Ids}

NextStream ==
    \/ \E op \in {"getStatus"}, f \in Formats : request(op, f, FALSE)
    \/ \E c \in Chans : StreamNext(c)
    \/ \E c \in Chans : DropStream(c)
    \/ \E ok \in BOOLEAN : Tick(ok)
    \/ \E ok \in BOOLEAN : Operate(ok)
    \/ \E m \in StreamFrames : Inbound(m, TRUE)
SpecStream == Init /\ [][NextStream]_vars

\* one connection: frames of every kind with every cursor, malformed frames
\* and the control messages
DemuxFrames ==
    {Frame(k, i, c, Height8) : k \in Kinds, i \in Ids, c \in Cursors \cup {NoCursor}}
    \cup MalformedFrames \cup ControlMessages

NextDemux ==
    \/ \E op \in {"getStatus"}, f \in Formats : request(op, f, FALSE)
    \/ Tick(TRUE)
    \/ \E ok \in BOOLEAN : Operate(ok)
    \/ \E m \in DemuxFrames : Inbound(m, TRUE)
SpecDemux == Init /\ [][NextDemux]_vars

\* disconnects: Continue frames bearing a cursor, and End
ReplayFrames ==
    {Frame("Continue", i, c, Height8) : i \in Ids, c \in Cursors}
    \cup {Frame("End", i, NoCursor, <<>>) : i \in Ids}

NextReplay ==
    \/ \E op \in {"getBlocks"}, f \in Formats : request(op, f, FALSE)
    \/ Tick(TRUE)
    \/ \E ok \in BOOLEAN : Operate(ok)
    \/ \E m \in ReplayFrames : Inbound(m, TRUE)
    \/ ReadFailure
    \/ ConnectFailed
    \/ \E failed \in SUBSET Ids : ConnectOk(failed)
    \/ GiveUp
SpecReplay == Init /\ [][NextReplay]_vars

\* disconnects, several handles, callers reading their streams
BudgetFrames == {Frame("Continue", i, NoCursor, Height8) : i \in Ids}

NextBudget ==
    \/ CloneHandle
    \/ DropHandle
    \/ \E op \in {"getStatus"}, f \in Formats : request(op, f, FALSE)
    \/ \E c \in Chans : StreamNext(c)
    \/ Tick(TRUE)
    \/ Operate(TRUE)
    \/ \E m \in BudgetFrames : Inbound(m, TRUE)
    \/ ReadFailure
    \/ ConnectFailed
    \/ \E failed \in SUBSET Ids : ConnectOk(failed)
    \/ GiveUp
SpecBudget == Init /\ [][NextBudget]_vars

\* one connection: server-reported errors, frames that do not decode, frames
\* of an unsupported kind, Text messages, and callers dropping their streams
FaultFrames ==
    {Frame(k, i, NoCursor, d) : k \in {"Continue", "Error", "Subscription"},
                                i \in Ids, d \in {Height8}}
    \cup {Frame("ContinueWithError", i, NoCursor, d) :
             i \in Ids, d \in {ResponseError404, BraceText, Height8, <<255>>}}
    \cup {Frame("Error", i, NoCursor, <<255>>) : i \in Ids}
    \cup {Frame("End", i, NoCursor, <<>>) : i \in Ids}
    \cup MalformedFrames
    \cup {t \in ControlMessages : t.type = "Text"}

NextFaults ==
    \/ \E op \in {"getStatus"}, f \in Formats : request(op, f, FALSE)
    \/ \E c \in Chans : DropStream(c)
    \/ Tick(TRUE)
    \/ Operate(TRUE)
    \/ \E m \in FaultFrames : Inbound(m, TRUE)
SpecFaults == Init /\ [][NextFaults]_vars

\* one connection on which Uuid::new_v4() may return an id it returned before
NextDup ==
    \/ \E i \in Ids, op \in {"getStatus"}, f \in Formats : request_id(i, op, f, FALSE)
    \/ \E c \in Chans : StreamNext(c)
    \/ Tick(TRUE)
    \/ \E ok \in BOOLEAN : Operate(ok)
    \/ \E m \in BudgetFrames : Inbound(m, TRUE)
SpecDup == Init /\ [][NextDup]_vars

(***************************************************************************)
(* The legacy worker (src/src/providers/ws.rs): one connection, no          *)
(* keep-alive, no reconnection, no cursors.  It uses pc, handles, calls,    *)
(* operations, subscriptions, channels, sent, yielded and over; the other   *)
(* variables keep their initial values.                                    *)
(***************************************************************************)
\* bitflags MsgMarker: the flags of the model's headers
MsgMarkers == {{"START"}, {"CONTINUE"}, {"END"}, {"ERROR"}, {"SUBSCRIPTION"},
               {"CONTINUE", "END"}}

\* a binary message that Header::try_from_data decodes
LegacyFrame(marker, id, data) ==
    [type |-> "Binary", parse |-> "Ok", header |-> [marker |-> marker, id |-> id],
     data |-> data]

\* binary messages Header::try_from_data rejects: shorter than Header::SIZE,
\* or with bits MsgMarker::from_bits does not know
LegacyMalformed == [type : {"Binary"}, parse : {"TooShort", "BadMarker"}]

LegacyFrames ==
    {LegacyFrame(mk, i, Height8) : mk \in MsgMarkers, i \in Ids}
    \cup LegacyMalformed
    \cup {t \in ControlMessages : t.type \in {"Text", "Pong"}}

\* WsProvider::raw_request of the legacy provider
raw_request(operation) ==
    /\ handles > 0
    /\ Len(calls) < Len(IdSeq)
    /\ LET k == Len(calls) + 1 IN
       /\ calls' = Append(calls, RequestResult)
       /\ IF RequestResult = "Stream"
          THEN /\ operations' = Append(operations,
                     [id |-> IdSeq[k], operation |-> operation, sink |-> k])
               /\ channels' = [channels EXCEPT ![k] = NewChannel]
          ELSE UNCHANGED <<operations, channels>>
    /\ UNCHANGED <<codecVars, done, pc, attempts, tickDue, handles, workerVars, wrote,
                   sent, yielded, over, seen, epoch>>

\* LegacyMsgOf with the CONTINUE branch before the ERROR branch
LegacyMsgOfContinueFirst(marker, data) ==
    IF "CONTINUE" \in marker THEN Ok(data)
    ELSE IF "ERROR" \in marker
    THEN IF IsUtf8(data) THEN Err("ErrorMsg", data)
                         ELSE Err("UnexpectedMessageFormat", <<>>)
    ELSE Err("UnexpectedMessageFormat", <<>>)

\* the msg of the legacy handle_binary, by the first branch the marker takes
\* after END and START
LegacyMsgOf(marker, data) ==
    IF "ERROR" \in marker
    THEN IF IsUtf8(data) THEN Err("ErrorMsg", data)
                         ELSE Err("UnexpectedMessageFormat", <<>>)
    ELSE IF "CONTINUE" \in marker THEN Ok(data)
    ELSE Err("UnexpectedMessageFormat", <<>>)

\* the legacy handle_binary routes a msg for this frame
LegacyRouted(m) ==
    /\ m.type = "Binary"
    /\ m.parse = "Ok"
    /\ "END" \notin m.header.marker
    /\ "START" \notin m.header.marker

\* the frame puts one more item into a sink
LegacyForwards(m) ==
    /\ LegacyRouted(m)
    /\ SinkOf(m.header.id) # NoSink
    /\ ~IsDisconnected(SinkOf(m.header.id))

\* the Result of the legacy handle: "none" for Ok(())
LegacyHandleResult(m, ok) ==
    CASE m.type = "Text" -> "UnexpectedMessage"
      [] m.type = "Close" -> "UnexpectedClose"
      [] m.type = "Ping" -> IF ok THEN "none" ELSE "Tungstenite"
      [] m.type = "Binary" ->
            IF m.parse # "Ok" THEN "UnexpectedMessageFormat"
            ELSE IF /\ LegacyRouted(m)
                    /\ SinkOf(m.header.id) # NoSink
                    /\ IsDisconnected(SinkOf(m.header.id))
                 THEN "Custom"
                 ELSE "none"
      [] OTHER -> "none"

\* the legacy handle when it returns Ok(()): what it does to the registry
\* and the sinks
legacy_handle(m) ==
    IF m.type = "Binary" /\ "END" \in m.header.marker
    THEN /\ subscriptions' = [subscriptions EXCEPT ![m.header.id] = NoSink]
         /\ channels' = CloseSink(channels, subscriptions[m.header.id])
         /\ sent' = sent
    ELSE IF LegacyForwards(m)
    THEN Route(m.header.id, LegacyMsgOf(m.header.marker, m.data))
    ELSE UNCHANGED <<subscriptions, channels, sent>>

\* shutdown that empties the registry and leaves every sink open
shutdownLeavesSinksOpen ==
    /\ pc' = "terminated"
    /\ operations' = <<>>
    /\ subscriptions' = [i \in Ids |-> NoSink]
    /\ channels' = channels
    /\ sent' = sent

\* BackgroundWorker::shutdown followed by the break of main_loop: every
\* registered sink is closed, and the worker is dropped with its registry and
\* with the operations still queued
shutdown ==
    /\ pc' = "terminated"
    /\ operations' = <<>>
    /\ subscriptions' = [i \in Ids |-> NoSink]
    /\ channels' = [c \in Chans |-> [channels[c] EXCEPT !.tx = FALSE]]
    /\ sent' = sent

\* BackgroundWorker::is_done
is_done == done /\ \A i \in Ids : subscriptions[i] = NoSink

\* the legacy tick, ws arm, Some(Ok(resp)): handle(resp).await? and, when
\* tick returns the error, main_loop shuts down; when tick returns Ok(()),
\* main_loop tests is_done() and breaks or enters the next tick
LegacyInbound(m, ok) ==
    /\ pc = "connected"
    /\ LegacyForwards(m) => TotalSent < MaxFrames
    /\ done' = done
    /\ IF LegacyHandleResult(m, ok) = "none"
       THEN /\ legacy_handle(m)
            /\ operations' = operations
            /\ pc' = IF is_done' THEN "terminated" ELSE "connected"
       ELSE shutdown
    /\ wrote' = HandleWrites(m, ok)
    /\ UNCHANGED <<codecVars, attempts, tickDue, clientVars, subscription_requests,
                   subscription_cursor, seen, epoch>>

\* the legacy tick, operations arm: operate registers the sink and writes
\* the request; a failed write removes and closes the sink and is only logged
LegacyOperate(ok) ==
    /\ pc = "connected"
    /\ operations # <<>>
    /\ LET o == Head(operations)
           replaced == ReplaceSink(subscriptions[o.id], o.sink)
       IN
       /\ operations' = Tail(operations)
       /\ IF ok
          THEN /\ subscriptions' = [subscriptions EXCEPT ![o.id] = o.sink]
               /\ channels' = replaced
               /\ wrote' = {[type |-> "Binary", id |-> o.id, operation |-> o.operation]}
          ELSE /\ subscriptions' = [subscriptions EXCEPT ![o.id] = NoSink]
               /\ channels' = CloseSink(replaced, o.sink)
               /\ wrote' = {}
    /\ UNCHANGED <<codecVars, done, pc, attempts, tickDue, clientVars, subscription_requests,
                   subscription_cursor, sent, seen, epoch>>

\* the legacy tick, ws arm, Some(Err(err)) and None: Err(UnexpectedClose),
\* and main_loop shuts down
LegacyReadFailure ==
    /\ pc = "connected"
    /\ shutdown
    /\ wrote' = {}
    /\ UNCHANGED <<codecVars, done, attempts, tickDue, clientVars, subscription_requests,
                   subscription_cursor, seen, epoch>>

\* the legacy tick, operations arm, once every WsProvider is dropped and the
\* queue is drained: the Fuse of operations returns None and is done,
\* select_next_some stays pending, and tick goes on waiting for the socket
LegacyOperationsClosed ==
    /\ pc = "connected"
    /\ handles = 0
    /\ operations = <<>>
    /\ ~done
    /\ done' = TRUE
    /\ UNCHANGED <<codecVars, pc, attempts, tickDue, clientVars, operations,
                   workerVars, channels, wrote, sent, seen, epoch>>

NextLegacy ==
    \/ DropHandle
    \/ \E op \in {"getHeight"} : raw_request(op)
    \/ \E c \in Chans : StreamNext(c)
    \/ \E c \in Chans : DropStream(c)
    \/ \E ok \in BOOLEAN : LegacyOperate(ok)
    \/ \E m \in LegacyFrames : LegacyInbound(m, TRUE)
    \/ LegacyReadFailure
    \/ LegacyOperationsClosed
SpecLegacy == Init /\ [][NextLegacy]_vars

\* the legacy worker with its own steps taken whenever they stay possible:
\* a queued operation is operated and a closed operations channel is
\* observed; what the socket delivers, and when, is the server's choice
SpecLegacyLive ==
    /\ Init
    /\ [][NextLegacy]_vars
    /\ WF_vars(\E ok \in BOOLEAN : LegacyOperate(ok))
    /\ WF_vars(LegacyOperationsClosed)

\* the legacy worker's dispatch: frames whose marker is SUBSCRIPTION alone or
\* any combination of the four flags handle_binary tests, none included
MsgFlags == {"START", "CONTINUE", "END", "ERROR"}
DispatchMarkers == (SUBSET MsgFlags) \cup {{"SUBSCRIPTION"}}
DispatchFrames == {LegacyFrame(mk, i, Height8) : mk \in DispatchMarkers, i \in Ids}

NextLegacyDispatch ==
    \/ \E op \in {"getHeight"} : raw_request(op)
    \/ \E c \in Chans : StreamNext(c)
    \/ LegacyOperate(TRUE)
    \/ \E m \in DispatchFrames : LegacyInbound(m, TRUE)
SpecLegacyDispatch == Init /\ [][NextLegacyDispatch]_vars

\* one connection before any message of the server: handles are cloned and
\* dropped, operations are submitted and processed
NextSubmit ==
    \/ CloneHandle
    \/ DropHandle
    \/ \E op \in Operations, f \in Formats : request(op, f, FALSE)
    \/ \E c \in Chans : DropStream(c)
    \/ Tick(TRUE)
    \/ \E ok \in BOOLEAN : Operate(ok)
SpecSubmit == Init /\ [][NextSubmit]_vars

\* the whole loop: the keep-alive timer, pings that fail, operations whose
\* write fails, errors, End, Close and Ping messages of the server,
\* callers dropping their streams, and disconnects
LoopFrames ==
    {Frame("Error", i, NoCursor, Height8) : i \in Ids}
    \cup {Frame("End", i, NoCursor, <<>>) : i \in Ids}
    \cup {t \in ControlMessages : t.type \in {"Close", "Ping"}}

NextLoop ==
    \/ DropHandle
    \/ \E op \in {"getStatus"}, f \in Formats : request(op, f, FALSE)
    \/ \E c \in Chans : DropStream(c)
    \/ TimerFires
    \/ \E ok \in BOOLEAN : Tick(ok)
    \/ \E ok \in BOOLEAN : Operate(ok)
    \/ \E m \in LoopFrames : Inbound(m, TRUE)
    \/ ReadFailure
    \/ ConnectFailed
    \/ ConnectOk({})
    \/ GiveUp
SpecLoop == Init /\ [][NextLoop]_vars

(***************************************************************************)
(* The wire codecs as functions of bytes: serde_json::to_vec of a Request,  *)
(* Header::try_from_data of the reconnecting worker (a JSON header line,    *)
(* then the payload), and Header::try_from_data of the legacy worker (the   *)
(* payload, then a trailer of Header::SIZE bytes).                          *)
(***************************************************************************)
\* b'\n'
Newline == 10
\* Header::SIZE of the legacy worker
SIZE == 21

\* str::as_bytes for the strings of the model
Bytes(s) ==
    CASE s = "getStatus" -> <<103, 101, 116, 83, 116, 97, 116, 117, 115>>
      [] s = "json" -> <<106, 115, 111, 110>>
      [] s = "json_stream" -> <<106, 115, 111, 110, 95, 115, 116, 114, 101, 97, 109>>
      [] s = "arrow" -> <<97, 114, 114, 111, 119>>
      [] s = "arrow_stream" -> <<97, 114, 114, 111, 119, 95, 115, 116, 114, 101, 97, 109>>
      [] s = "" -> <<>>
      [] s = "10" -> <<49, 48>>
      [] s = "20" -> <<50, 48>>
      [] s = "1\n0" -> <<49, 10, 48>>
      [] s = "Start" -> <<83, 116, 97, 114, 116>>
      [] s = "Continue" -> <<67, 111, 110, 116, 105, 110, 117, 101>>
      [] s = "ContinueWithError" -> <<67, 111, 110, 116, 105, 110, 117, 101, 87, 105, 116, 104, 69,
            114, 114, 111, 114>>
      [] s = "End" -> <<69, 110, 100>>
      [] s = "Error" -> <<69, 114, 114, 111, 114>>
      [] s = "Subscription" -> <<83, 117, 98, 115, 99, 114, 105, 112, 116, 105, 111, 110>>

\* the hyphenated text serde writes and reads for the Uuid of an id
UuidText(id) ==
    IF id = "A"
    THEN <<48, 49, 48, 50, 48, 51, 48, 52, 45, 48, 53, 48, 54, 45, 48, 55, 48,
         56, 45, 48, 57, 48, 97, 45, 48, 98, 48, 99, 48, 100, 48, 101, 48, 102,
         49, 48>>
    ELSE <<49, 49, 49, 50, 49, 51, 49, 52, 45, 49, 53, 49, 54, 45, 49, 55, 49,
         56, 45, 49, 57, 49, 97, 45, 49, 98, 49, 99, 49, 100, 49, 101, 49, 102,
         50, 48>>

\* Uuid::as_bytes of an id
UuidBytes(id) ==
    IF id = "A"
    THEN <<1, 2, 3, 4, 5, 6, 7, 8, 9, 10, 11, 12, 13, 14, 15, 16>>
    ELSE <<17, 18, 19, 20, 21, 22, 23, 24, 25, 26, 27, 28, 29, 30, 31, 32>>

\* the 16 bytes the legacy server writes for an id: the first three fields
\* of the Uuid in little-endian order
UuidLe(id) ==
    IF id = "A"
    THEN <<4, 3, 2, 1, 6, 5, 8, 7, 9, 10, 11, 12, 13, 14, 15, 16>>
    ELSE <<20, 19, 18, 17, 22, 21, 24, 23, 25, 26, 27, 28, 29, 30, 31, 32>>

\* serde_json's string: the text between quotes, with the quote, the
\* backslash and the newline escaped
RECURSIVE Escape(_)
Escape(b) ==
    IF b = <<>> THEN <<>>
    ELSE (CASE Head(b) = 34 -> <<92, 34>>
            [] Head(b) = 92 -> <<92, 92>>
            [] Head(b) = Newline -> <<92, 110>>
            [] OTHER -> <<Head(b)>>) \o Escape(Tail(b))
JsonString(b) == <<34>> \o Escape(b) \o <<34>>

\* serde_json::to_vec(&req) for a Request whose operation has no parameters:
\* {"id":..,"operation":..,"format":..,"deltas":..,"cursor":..}
to_vec(req) ==
    <<123, 34, 105, 100, 34, 58>> \o JsonString(UuidText(req.id))
    \o <<44, 34, 111, 112, 101, 114, 97, 116, 105, 111, 110, 34, 58>>
    \o JsonString(Bytes(req.operation))
    \o <<44, 34, 102, 111, 114, 109, 97, 116, 34, 58>> \o JsonString(Bytes(req.format))
    \o <<44, 34, 100, 101, 108, 116, 97, 115, 34, 58>>
    \o (IF req.deltas THEN <<116, 114, 117, 101>> ELSE <<102, 97, 108, 115, 101>>)
    \o <<44, 34, 99, 117, 114, 115, 111, 114, 34, 58>> \o JsonString(Bytes(req.cursor))
    \o <<125>>

\* the header line a server writes for a header of the model:
\* {"kind":..,"id":..,"counter":0} with "cursor":.. when there is one
HeaderText(h) ==
    <<123, 34, 107, 105, 110, 100, 34, 58>> \o JsonString(Bytes(h.kind))
    \o <<44, 34, 105, 100, 34, 58>> \o JsonString(UuidText(h.id))
    \o <<44, 34, 99, 111, 117, 110, 116, 101, 114, 34, 58, 48>>
    \o (IF h.cursor = NoCursor THEN <<>>
        ELSE <<44, 34, 99, 117, 114, 115, 111, 114, 34, 58>> \o JsonString(Bytes(h.cursor)))
    \o <<125>>

\* a header line with blanks around it, the fields in another order and
\* explicit nulls: End, id B, no cursor
LooseHeaderText ==
    <<32, 123, 34, 99, 111, 117, 110, 116, 101, 114, 34, 58, 55, 44, 34, 101,
      112, 111, 99, 104, 34, 58, 110, 117, 108, 108, 44, 34, 105, 100, 34, 58,
      34, 49, 49, 49, 50, 49, 51, 49, 52, 45, 49, 53, 49, 54, 45, 49, 55, 49,
      56, 45, 49, 57, 49, 97, 45, 49, 98, 49, 99, 49, 100, 49, 101, 49, 102,
      50, 48, 34, 44, 34, 107, 105, 110, 100, 34, 58, 34, 69, 110, 100, 34, 44,
      34, 99, 117, 114, 115, 111, 114, 34, 58, 110, 117, 108, 108, 125, 32>>

\* header lines serde rejects: a kind that Kind does not have, and a header
\* without its counter
BogusKindText ==
    <<123, 34, 107, 105, 110, 100, 34, 58, 34, 66, 111, 103, 117, 115, 34,
      44, 34, 105, 100, 34, 58, 34, 48, 49, 48, 50, 48, 51, 48, 52, 45, 48, 53,
      48, 54, 45, 48, 55, 48, 56, 45, 48, 57, 48, 97, 45, 48, 98, 48, 99, 48,
      100, 48, 101, 48, 102, 49, 48, 34, 44, 34, 99, 111, 117, 110, 116, 101,
      114, 34, 58, 48, 125>>
NoCounterText ==
    <<123, 34, 107, 105, 110, 100, 34, 58, 34, 67, 111, 110, 116, 105, 110,
      117, 101, 34, 44, 34, 105, 100, 34, 58, 34, 48, 49, 48, 50, 48, 51, 48,
      52, 45, 48, 53, 48, 54, 45, 48, 55, 48, 56, 45, 48, 57, 48, 97, 45, 48,
      98, 48, 99, 48, 100, 48, 101, 48, 102, 49, 48, 34, 125>>

\* the headers whose lines the frames of the codec are built from
CodecHeaders == [kind : {"Continue", "End"}, id : Ids, cursor : {NoCursor, "10"}]

\* what a decoder returns
DecodeOk(h, d) == [tag |-> "Ok", header |-> h, data |-> d]
DecodeErr(e) == [tag |-> "Err", error |-> e]
\* nothing encoded or decoded yet
NoCodec == [tag |-> "none"]

\* serde_json::from_slice::<Header> on the texts of the model: the lines
\* HeaderText writes and LooseHeaderText parse; every other text of the model
\* lacks a field Header requires, names no Kind, or is no JSON object
from_slice(b) ==
    IF \E h \in CodecHeaders : HeaderText(h) = b
    THEN DecodeOk(CHOOSE h \in CodecHeaders : HeaderText(h) = b, <<>>)
    ELSE IF b = LooseHeaderText
    THEN DecodeOk([kind |-> "End", id |-> "B", cursor |-> NoCursor], <<>>)
    ELSE DecodeErr("SerdeJson")

\* data.splitn_mut(2, |b| *b == b'\n'), scanning from position k: one slice
\* when there is no newline, else the slices before and after the first one
\* splitn_mut that splits at the last newline
rsplitn_mut(data, k) ==
    LET nl == {j \in k..Len(data) : data[j] = Newline} IN
    IF nl = {}
    THEN <<data>>
    ELSE LET j == CHOOSE x \in nl : \A y \in nl : y <= x IN
         <<SubSeq(data, 1, j - 1), SubSeq(data, j + 1, Len(data))>>

splitn_mut(data, k) ==
    LET stop == CHOOSE j \in k..(Len(data) + 1) :
                   /\ j <= Len(data) => data[j] = Newline
                   /\ \A x \in k..(j - 1) : data[x] # Newline
    IN
    IF stop > Len(data)
    THEN <<data>>
    ELSE <<SubSeq(data, 1, stop - 1), SubSeq(data, stop + 1, Len(data))>>

\* Header::try_from_data of the reconnecting worker
try_from_data(data) ==
    LET split == splitn_mut(data, 1) IN
    IF Len(split) < 2
    THEN DecodeErr("UnexpectedMessageFormat")
    ELSE LET header == from_slice(split[1]) IN
         IF header.tag = "Err"
         THEN header
         ELSE DecodeOk(header.header, split[2])

\* bit v (a power of two) of the byte b is set
Bit(b, v) == (b \div v) % 2 = 1

\* bitflags MsgMarker: the bit of each flag
MarkerBits ==
    [n \in {"START", "CONTINUE", "END", "ERROR", "SUBSCRIPTION"} |->
       CASE n = "START" -> 1
         [] n = "CONTINUE" -> 2
         [] n = "END" -> 4
         [] n = "ERROR" -> 128
         [] n = "SUBSCRIPTION" -> 64]

\* MsgMarker::from_bits_truncate: the bits of no flag are dropped
from_bits_truncate(b) ==
    [some |-> TRUE, marker |-> {n \in DOMAIN MarkerBits : Bit(b, MarkerBits[n])}]

\* MsgMarker::from_bits: None when a bit of no flag is set
from_bits(b) ==
    IF \E v \in {1, 2, 4, 8, 16, 32, 64, 128} :
          /\ Bit(b, v)
          /\ \A n \in DOMAIN MarkerBits : MarkerBits[n] # v
    THEN [some |-> FALSE, marker |-> {}]
    ELSE [some |-> TRUE, marker |-> {n \in DOMAIN MarkerBits : Bit(b, MarkerBits[n])}]

\* Uuid::from_bytes_le: the bytes of the first three fields are reversed
from_bytes_le(b) ==
    <<b[4], b[3], b[2], b[1], b[6], b[5], b[8], b[7]>> \o SubSeq(b, 9, 16)

\* u32::from_be_bytes
from_be_bytes(b) == ((b[1] * 256 + b[2]) * 256 + b[3]) * 256 + b[4]

\* Header::try_from_data of the legacy worker
legacy_try_from_data(data) ==
    LET data_len == Len(data) IN
    IF data_len < SIZE
    THEN DecodeErr("UnexpectedMessageFormat")
    ELSE LET header == SubSeq(data, data_len - SIZE + 1, data_len)
             marker == from_bits(header[1])
         IN
         IF ~marker.some
         THEN DecodeErr("UnexpectedMessageFormat")
         ELSE DecodeOk([marker |-> marker.marker,
                        id |-> from_bytes_le(SubSeq(header, 2, 17)),
                        counter |-> from_be_bytes(SubSeq(header, 18, 21))],
                       SubSeq(data, 1, data_len - SIZE))

\* the requests encoded: every format, deltas and cursor, one of the cursors
\* holding a newline
CodecRequests ==
    {Request(i, "getStatus", f, d, c) :
        i \in Ids, f \in {"json", "json_stream", "arrow", "arrow_stream"},
        d \in BOOLEAN, c \in {"", "10", "20", "1\n0"}}

\* the bytes before the first newline of a frame: header lines that parse and
\* texts that do not
HeaderParts ==
    {HeaderText(h) : h \in CodecHeaders}
    \cup {LooseHeaderText, BogusKindText, NoCounterText, <<>>, <<123>>,
          <<123, 125>>, <<104, 101, 108, 108, 111>>,
          to_vec(Request("A", "getStatus", "json_stream", FALSE, ""))}

\* the bytes after it: empty, eight bytes, and bytes holding newlines
PayloadParts ==
    {<<>>, Height8, <<Newline>>, <<72, Newline, 73>>, <<Newline, Newline>>}

\* binary frames for the line decoder, with and without a newline
CodecFrames ==
    {h \o <<Newline>> \o p : h \in HeaderParts, p \in PayloadParts}
    \cup HeaderParts

\* a legacy frame: payload, flag byte, id, counter
Trailer(p, flag, i) == p \o <<flag>> \o UuidLe(i) \o <<0, 0, 1, 2>>

\* binary frames for the trailer decoder: every flag byte, and every frame
\* cut short of Header::SIZE
TrailerFrames ==
    {Trailer(p, flag, "A") : p \in {<<>>, Height8}, flag \in 0..255}
    \cup {Trailer(<<Newline>>, flag, "B") : flag \in {2, 4, 6, 8}}
    \cup {SubSeq(Trailer(<<>>, 2, "A"), 1, n) : n \in 0..(SIZE - 1)}
    \cup {SubSeq(Trailer(<<>>, 2, "A"), SIZE - n + 1, SIZE) : n \in 0..(SIZE - 1)}

\* enum Bound (core/types/query.rs), on integers of IntBits bits: i64 is
\* MinI64..MaxI64 and u64 is 0..MaxU64
MaxI64 == 2 ^ (IntBits - 1) - 1
MinI64 == -(2 ^ (IntBits - 1))
MaxU64 == 2 ^ IntBits - 1
Exact(n) == [kind |-> "Exact", n |-> n]
FromLatest(n) == [kind |-> "FromLatest", n |-> n]
Latest == [kind |-> "Latest", n |-> 0]
Subscribe == [kind |-> "Subscribe", n |-> 0]
BoundValues ==
    {Exact(n) : n \in MinI64..MaxI64} \cup {FromLatest(n) : n \in 0..MaxU64}
    \cup {Latest, Subscribe}

\* what a Serializer is given: serialize_i64(n) or serialize_str(s); a panic
\* of the arithmetic before it
SerI64(n) == [tag |-> "i64", n |-> n]
SerStr(t) == [tag |-> "str", text |-> t]
SerPanic == [tag |-> "panic"]

\* n as i64
AsI64(n) == IF n > MaxI64 THEN n - 2 ^ IntBits ELSE n

\* -(x) on i64: i64::MIN overflows, which panics with overflow checks and
\* wraps without
NegI64(x) == IF x = MinI64 THEN {SerPanic, SerI64(MinI64)} ELSE {SerI64(-x)}

\* serialize with the cast of FromLatest written out without the negation
serializeUnsigned(b) ==
    CASE b.kind = "Exact" -> {SerI64(b.n)}
      [] b.kind = "FromLatest" -> {SerI64(AsI64(b.n))}
      [] b.kind = "Latest" -> {SerStr("latest")}
      [] b.kind = "Subscribe" -> {SerStr("none")}

\* impl Serialize for Bound: the values serialize can hand to the serializer
serialize(b) ==
    CASE b.kind = "Exact" -> {SerI64(b.n)}
      [] b.kind = "FromLatest" -> NegI64(AsI64(b.n))
      [] b.kind = "Latest" -> {SerStr("latest")}
      [] b.kind = "Subscribe" -> {SerStr("none")}

CodecInputs ==
    {[tag |-> "request", req |-> r] : r \in CodecRequests}
    \cup {[tag |-> "frame", data |-> d] : d \in CodecFrames}
    \cup {[tag |-> "trailer", data |-> d] : d \in TrailerFrames}
    \cup {[tag |-> "bound", bound |-> b] : b \in BoundValues}

\* no worker activity; one value to encode or decode
InitCodec ==
    /\ pc = "connected"
    /\ attempts = 0
    /\ tickDue = TRUE
    /\ handles = 1
    /\ calls = <<>>
    /\ operations = <<>>
    /\ subscriptions = [i \in Ids |-> NoSink]
    /\ subscription_requests = [i \in Ids |-> NoRequest]
    /\ subscription_cursor = [i \in Ids |-> NoCursor]
    /\ channels = [c \in Chans |-> NoChannel]
    /\ wrote = {}
    /\ sent = [c \in Chans |-> <<>>]
    /\ yielded = [c \in Chans |-> <<>>]
    /\ over = [c \in Chans |-> FALSE]
    /\ seen = [i \in Ids |-> NoCursor]
    /\ epoch = 0
    /\ codec_in \in CodecInputs
    /\ codec_out = NoCodec
    /\ done = FALSE

\* the request is encoded as operate encodes it and the bytes are given to
\* the decoder of handle_binary
EncodeThenDecode ==
    /\ codec_in.tag = "request"
    /\ codec_out = NoCodec
    /\ codec_out' = try_from_data(to_vec(codec_in.req))
    /\ UNCHANGED <<done, codec_in, pc, attempts, tickDue, clientVars, operations,
                   workerVars, channels, wrote, sent, seen, epoch>>

\* handle_binary's first line, reconnecting worker
Decode ==
    /\ codec_in.tag = "frame"
    /\ codec_out = NoCodec
    /\ codec_out' = try_from_data(codec_in.data)
    /\ UNCHANGED <<done, codec_in, pc, attempts, tickDue, clientVars, operations,
                   workerVars, channels, wrote, sent, seen, epoch>>

\* handle_binary's first line, legacy worker
LegacyDecode ==
    /\ codec_in.tag = "trailer"
    /\ codec_out = NoCodec
    /\ codec_out' = legacy_try_from_data(codec_in.data)
    /\ UNCHANGED <<done, codec_in, pc, attempts, tickDue, clientVars, operations,
                   workerVars, channels, wrote, sent, seen, epoch>>

\* a Bound of a block range is serialized
SerializeBound ==
    /\ codec_in.tag = "bound"
    /\ codec_out = NoCodec
    /\ codec_out' \in serialize(codec_in.bound)
    /\ UNCHANGED <<done, codec_in, pc, attempts, tickDue, clientVars, operations,
                   workerVars, channels, wrote, sent, seen, epoch>>

NextCodec ==
    \/ EncodeThenDecode
    \/ Decode
    \/ LegacyDecode
    \/ SerializeBound
SpecCodec == InitCodec /\ [][NextCodec]_vars

(***************************************************************************)
(* Claims.                                                                 *)
(***************************************************************************)
\* the ids with a registered sink
Registered == {i \in Ids : subscriptions[i] # NoSink}

\* the ids of the requests among a set of written messages
RequestIds(ws) == {w.req.id : w \in {x \in ws : x.type = "Binary"}}

\* C1: after attempt_reconnect succeeds, one resend is written for every
\* subscription that was registered when the failure was detected (when no
\* write fails), and none for any other id: not for one that received End,
\* that was removed because its receiver was dropped, or whose first write
\* failed.
C1_ReplayOnlyRegistered ==
    [][\A failed \in SUBSET Ids :
         ConnectOk(failed) =>
            /\ RequestIds(wrote') \subseteq Registered
            /\ failed = {} => Registered \subseteq RequestIds(wrote')]_vars

\* a step in which attempt_reconnect returns true
Reconnected == pc = "reconnecting" /\ pc' = "connected"

\* a step between the detection of the failure and the end of a successful
\* attempt_reconnect, both included
InEpisode == (pc = "reconnecting" \/ pc' = "reconnecting") /\ pc' # "terminated"

\* C2: every resend after a successful reconnect carries the cursor of the
\* last Continue frame bearing one that was processed for its id, or the
\* empty string of a fresh id when there was none.
C2_ReplayCursor ==
    [][Reconnected =>
         \A w \in wrote' :
            w.req.cursor = IF seen[w.req.id] # NoCursor THEN seen[w.req.id] ELSE ""]_vars

\* C2 happens: A and B were resent with the cursors "10" and "20"
C2_Witness ==
    /\ pc = "connected"
    /\ epoch = 1
    /\ \E wa, wb \in wrote :
         /\ wa.req.id = "A" /\ wa.req.cursor = "10"
         /\ wb.req.id = "B" /\ wb.req.cursor = "20"

\* the sink the request call for id created
OriginalSink(id) == CHOOSE k \in Chans : IdSeq[k] = id

\* C3: attempt_reconnect, whatever the number of failed attempts before the
\* successful one, removes no registry entry and changes no sink, retained
\* request or cursor; a Continue frame for a registered id is delivered to
\* the sink the request call for that id created.
C3_NoSubscriptionLost ==
    [][/\ InEpisode =>
            /\ UNCHANGED <<subscriptions, subscription_requests, subscription_cursor>>
            /\ \A c \in Chans : channels[c].tx => channels'[c].tx
       /\ \A m \in ReplayFrames :
            (/\ Inbound(m, TRUE)
             /\ m.header.kind = "Continue"
             /\ subscriptions[m.header.id] # NoSink
             /\ channels[OriginalSink(m.header.id)].rx)
            => LET c == OriginalSink(m.header.id) IN
               /\ subscriptions'[m.header.id] = c
               /\ channels'[c].queue = Append(channels[c].queue, Ok(m.data))
               /\ sent'[c] = Append(sent[c], [item |-> Ok(m.data), epoch |-> epoch])]_vars

\* C3 happens: after a reconnect both subscriptions are registered and a
\* Continue frame of the new connection reached A's sink
C3_Witness ==
    /\ pc = "connected"
    /\ epoch = 1
    /\ subscriptions["A"] = 1
    /\ subscriptions["B"] = 2
    /\ \E k \in 1..Len(sent[1]) : sent[1][k].epoch = 1
    /\ channels[1].queue # <<>>

\* C4: once the worker has terminated, a request on any handle fails with
\* BackendShutDown, returns no stream and registers nothing.
C4_RequestAfterShutdown ==
    [][(pc = "terminated" /\ Len(calls') > Len(calls)) =>
         /\ calls'[Len(calls')] = "BackendShutDown"
         /\ UNCHANGED <<operations, subscriptions, subscription_requests,
                        subscription_cursor, channels>>]_vars

\* C4 happens: with two handles alive, a request after termination failed
C4_Witness ==
    /\ pc = "terminated"
    /\ handles = 2
    /\ Len(calls) > 0
    /\ calls[Len(calls)] = "BackendShutDown"

\* C5: when the retry budget is exhausted every registered sink is closed
\* and every caller that still holds its stream is given a BackendShutDown
\* error item on it.
C5_ShutdownErrorItem ==
    [][(pc # "terminated" /\ pc' = "terminated") =>
         \A i \in Ids :
            (subscriptions[i] # NoSink /\ channels[subscriptions[i]].rx) =>
               LET q == channels'[subscriptions[i]].queue IN
               /\ ~channels'[subscriptions[i]].tx
               /\ q # <<>>
               /\ q[Len(q)].tag = "BackendShutDown"]_vars

\* C6: Connected -> Reconnecting -> Connected | PermanentlyFailed and no
\* other transition; at most 100 attempts in an episode; back to Connected
\* at the first success; PermanentlyFailed exactly after 100 failures.
C6_StateMachine ==
    [][/\ pc = "connected" => pc' \in {"connected", "reconnecting"}
       /\ pc = "reconnecting" => pc' \in {"reconnecting", "connected", "terminated"}
       /\ pc = "terminated" => pc' = "terminated"
       /\ attempts' <= 100
       /\ (pc = "reconnecting" /\ pc' = "reconnecting") =>
             attempts' \in {attempts, attempts + 1}
       /\ Reconnected => attempts < 100
       /\ (pc = "reconnecting" /\ pc' = "terminated") => attempts = 100
       /\ (pc = "reconnecting" /\ attempts = 100) =>
             (pc' = "terminated" \/ UNCHANGED <<pc, attempts>>)]_vars

\* C6 happens: the worker has given up
C6_Witness == pc = "terminated" /\ epoch = 1

\* C7: from the detection of the failure to the end of a successful
\* reconnection the worker enqueues nothing to any sink and closes none.
C7_DisconnectNotSurfaced ==
    [][InEpisode =>
         /\ sent' = sent
         /\ \A c \in Chans :
              /\ channels[c].tx => channels'[c].tx
              /\ channels'[c].queue \in {channels[c].queue, <<>>}]_vars

\* C7 happens: after a reconnect a registered sink is open, its stream held
C7_Witness ==
    /\ pc = "connected"
    /\ epoch = 1
    /\ \E i \in Ids :
         /\ subscriptions[i] # NoSink
         /\ channels[subscriptions[i]].tx
         /\ channels[subscriptions[i]].rx

\* the items the worker forwarded to channel c, in the order it did
SentItems(c) == [k \in 1..Len(sent[c]) |-> sent[c][k].item]

\* s is a prefix of t
IsPrefix(s, t) == Len(s) <= Len(t) /\ \A k \in 1..Len(s) : s[k] = t[k]

\* an item that is not an empty success chunk
Substantial(item) == ~(item.tag = "Ok" /\ item.data = <<>>)

\* C8: the stream of a call yields exactly the chunks the worker forwarded
\* to its sink, in the order the worker forwarded them, and nothing after
\* its end.
C8_YieldsAllForwarded ==
    \A c \in Chans :
       /\ IsPrefix(yielded[c], SentItems(c))
       /\ over[c] => yielded[c] = SentItems(c)

\* C8 as amended: the stream yields exactly the forwarded items that are
\* not empty success chunks, in the order the worker forwarded them, and
\* nothing after its end.
C8_YieldsSubstantialForwarded ==
    \A c \in Chans :
       /\ IsPrefix(yielded[c], SelectSeq(SentItems(c), Substantial))
       /\ over[c] => yielded[c] = SelectSeq(SentItems(c), Substantial)

\* C8 happens: one Continue frame with an 8-byte payload, an Error frame,
\* then End: the stream yielded the chunk, the error, and ended
C8_Witness ==
    /\ over[1]
    /\ yielded[1] = <<Ok(Height8), Err("ErrorMsg", Height8)>>

\* C9: an item reaches the sink registered under an id only in a step that
\* processes a frame with that id in its header, and an Error or
\* ContinueWithError frame for one id changes neither the sink, the
\* registration nor the cursor of any other id.
C9_Isolation ==
    [][/\ \A c \in Chans :
            sent'[c] # sent[c] =>
               \E m \in DemuxFrames :
                  /\ m.type = "Binary" /\ m.parse = "Ok"
                  /\ subscriptions[m.header.id] = c
                  /\ Inbound(m, TRUE)
       /\ \A m \in DemuxFrames :
            (/\ m.type = "Binary" /\ m.parse = "Ok"
             /\ m.header.kind \in {"Error", "ContinueWithError"})
            => \/ /\ \A j \in Ids \ {m.header.id} :
                       /\ subscriptions'[j] = subscriptions[j]
                       /\ subscription_cursor'[j] = subscription_cursor[j]
                       /\ subscription_requests'[j] = subscription_requests[j]
                  /\ \A c \in Chans \ {subscriptions[m.header.id]} :
                       /\ channels'[c] = channels[c]
                       /\ sent'[c] = sent[c]
               \/ ~Inbound(m, TRUE)]_vars

\* C9 happens: an error of the server was delivered to A while B is
\* registered, open and has received nothing
C9_Witness ==
    /\ subscriptions["A"] = 1
    /\ subscriptions["B"] = 2
    /\ SentItems(1) = <<Err("ErrorMsg", Height8)>>
    /\ sent[2] = <<>>
    /\ channels[2].tx
    /\ subscription_cursor["B"] = "20"

\* C10: the stored cursor of an id is, at every moment, the cursor of the
\* last Continue frame bearing one that was processed for that id: only
\* such a frame changes it, and it becomes that frame's cursor.
C10_StoredCursor == \A i \in Ids : subscription_cursor[i] = seen[i]

\* C10 happens: two frames were forwarded to A, its stored cursor is "10",
\* and B, registered, has none
C10_Witness ==
    /\ Len(sent[1]) = 2
    /\ subscription_cursor["A"] = "10"
    /\ subscriptions["B"] = 2
    /\ subscription_cursor["B"] = NoCursor

\* C11: when the caller dropped the stream of an id before any frame was
\* forwarded to it, the step that handles the next Continue frame for that id
\* removes the id's entry, handle returns Ok(()) (no error is reported), the
\* worker stays in its loop and every other registration is unchanged.
C11_DroppedStreamSilent ==
    [][\A m \in StreamFrames :
         (/\ m.header.kind = "Continue"
          /\ SinkOf(m.header.id) # NoSink
          /\ IsDisconnected(SinkOf(m.header.id))
          /\ sent[SinkOf(m.header.id)] = <<>>)
         => \/ /\ subscriptions'[m.header.id] = NoSink
               /\ HandleResult(m, TRUE) = "none"
               /\ pc' = "connected"
               /\ \A j \in Ids \ {m.header.id} : subscriptions'[j] = subscriptions[j]
            \/ ~Inbound(m, TRUE)]_vars

\* the message is one whose handling fails for one frame or one subscription:
\* a Text message, a binary frame that does not decode, a server-reported
\* error, a frame of an unsupported kind, a frame for a disconnected sink
LocalFault(m) ==
    \/ m.type = "Text"
    \/ /\ m.type = "Binary"
       /\ \/ m.parse # "Ok"
          \/ m.header.kind \in {"Error", "ContinueWithError", "Subscription"}
          \/ HandleResult(m, TRUE) = "Custom"

\* the ids a message is not addressed to
OtherIds(m) ==
    IF m.type = "Binary" /\ m.parse = "Ok" THEN Ids \ {m.header.id} ELSE Ids

\* C12: a step that handles a message with a local fault leaves the worker in
\* its loop on the same connection, and leaves the registration and the sink
\* of every other id as they were.
C12_LocalFaultKeepsSession ==
    [][\A m \in FaultFrames :
         LocalFault(m) =>
            \/ /\ pc' = "connected"
               /\ epoch' = epoch
               /\ \A j \in OtherIds(m) :
                    /\ subscriptions'[j] = subscriptions[j]
                    /\ subscriptions[j] # NoSink =>
                          channels'[subscriptions[j]] = channels[subscriptions[j]]
            \/ ~Inbound(m, TRUE)]_vars

\* C12 happens: A's entry was removed because its stream had been dropped,
\* B received a server-reported error and the error of an unsupported kind,
\* and B is still registered with its sink open
C12_Witness ==
    /\ pc = "connected"
    /\ subscriptions["A"] = NoSink
    /\ ~channels[1].rx
    /\ subscriptions["B"] = 2
    /\ channels[2].tx
    /\ SentItems(2) = <<Err("ErrorMsg", Height8), Err("UnexpectedMessageFormat", <<>>)>>

\* the item the claim expects for the payload of a ContinueWithError frame:
\* the structured error when the payload parses as one, else the payload as
\* a message when it is text, else the malformed-format error
ExpectedOfPayload(data) ==
    IF ParsesAsResponseError(data) THEN Err("ErrorResponse", data)
    ELSE IF IsUtf8(data) THEN Err("ErrorMsg", data)
    ELSE Err("UnexpectedMessageFormat", <<>>)

\* C13: the step that handles a ContinueWithError frame for an id whose sink
\* is registered and connected appends to that sink the structured error
\* when the payload parses as {status, error}, otherwise the message with the
\* payload text, and the malformed-format error only when the payload is
\* neither.
C13_ContinueWithErrorItem ==
    [][\A m \in FaultFrames :
         (/\ m.type = "Binary" /\ m.parse = "Ok"
          /\ m.header.kind = "ContinueWithError"
          /\ Forwards(m))
         => \/ sent'[SinkOf(m.header.id)] =
                  Append(sent[SinkOf(m.header.id)],
                         [item |-> ExpectedOfPayload(m.data), epoch |-> epoch])
            \/ ~Inbound(m, TRUE)]_vars

\* every sender that is still open either waits in the queue of operations or
\* is the one sink registered under some id
LiveSinksRegistered ==
    \A c \in Chans :
       channels[c].tx =>
          \/ \E k \in 1..Len(operations) : operations[k].sink = c
          \/ \E i \in Ids : subscriptions[i] = c

\* C14: a sink that is open and was handed to the worker is the sink
\* registered under its id, so an id has at most one live sink; a step of
\* operate for an id that is already registered puts the new sink in the
\* entry and closes the previous one; and an item reaches a sink only while
\* that sink is the one registered under the id of the frame.
C14_OneLiveSink ==
    /\ []LiveSinksRegistered
    /\ [][/\ operations # <<>> =>
             LET o == Head(operations)
                 old == subscriptions[o.id]
             IN  old # NoSink =>
                    \/ /\ subscriptions'[o.id] = o.sink
                       /\ ~channels'[old].tx
                       /\ channels'[o.sink].tx
                    \/ ~Operate(TRUE)
          /\ \A c \in Chans :
               sent'[c] # sent[c] =>
                  \E m \in BudgetFrames :
                     /\ subscriptions[m.header.id] = c
                     /\ Inbound(m, TRUE)]_vars

\* C14 happens: both calls were given the id A; the first sink received a
\* chunk and was then replaced, the first caller's stream has ended, and the
\* next chunk for A went to the second sink
C14_Witness ==
    /\ Len(calls) = 2
    /\ subscription_requests["B"] = NoRequest
    /\ subscriptions["A"] = 2
    /\ over[1]
    /\ yielded[1] = <<Ok(Height8)>>
    /\ SentItems(1) = <<Ok(Height8)>>
    /\ SentItems(2) = <<Ok(Height8)>>

\* C15: a step of operate whose write to the socket fails removes the entry
\* it made and closes that sink, writes nothing, leaves the worker in its
\* loop on the same connection and leaves every other registration and sink
\* as it was; and the worker enters attempt_reconnect only in the step in
\* which the read of the socket returns None or an error.
C15_WriteFailure ==
    [][/\ operations # <<>> =>
            LET o == Head(operations) IN
               \/ /\ subscriptions'[o.id] = NoSink
                  /\ ~channels'[o.sink].tx
                  /\ wrote' = {}
                  /\ pc' = "connected"
                  /\ epoch' = epoch
                  /\ \A j \in Ids \ {o.id} :
                       /\ subscriptions'[j] = subscriptions[j]
                       /\ subscriptions[j] # NoSink =>
                             channels'[subscriptions[j]] = channels[subscriptions[j]]
               \/ ~Operate(FALSE)
       /\ (pc = "connected" /\ pc' = "reconnecting") => ReadFailure]_vars

\* C15 happens: the write for B failed while A was registered; B's sink is
\* closed and B's caller sees the end of its stream, A is untouched, and the
\* worker is on its first connection
C15_Witness ==
    /\ pc = "connected"
    /\ epoch = 0
    /\ subscriptions["A"] = 1
    /\ channels[1].tx
    /\ subscription_requests["B"] # NoRequest
    /\ subscriptions["B"] = NoSink
    /\ ~channels[2].tx
    /\ sent[2] = <<>>

\* C16: in every state with a handle to call it on, ready() is true exactly
\* when the worker holds a live connection: it is false while the worker is
\* in attempt_reconnect and false once the worker has terminated.
C16_ReadyIffConnected == handles > 0 => (ready <=> pc = "connected")

\* C17: whenever main_loop is at its third arm, the step that handles a frame
\* can be taken whatever the sinks hold, and a step that forwards an item to
\* a sink appends it behind the items that sink already holds.
C17_NeverBlocks ==
    /\ [](\A m \in StreamFrames :
            (/\ pc = "connected" /\ ~tickDue /\ operations = <<>>
             /\ TotalSent < MaxFrames)
            => ENABLED Inbound(m, TRUE))
    /\ [][\A m \in StreamFrames :
            (Routed(m) /\ Forwards(m)) =>
               \/ channels'[SinkOf(m.header.id)].queue =
                     Append(channels[SinkOf(m.header.id)].queue,
                            MsgOf(m.header.kind, m.data))
               \/ ~Inbound(m, TRUE)]_vars

\* C17 happens: A's caller has taken nothing and A's sink holds an item, and
\* a chunk for B was forwarded and B's caller has taken it
C17_Witness ==
    /\ channels[1].rx
    /\ yielded[1] = <<>>
    /\ channels[1].queue = <<Ok(Height8)>>
    /\ subscriptions["B"] = 2
    /\ SentItems(2) = <<Ok(Height8)>>
    /\ yielded[2] = <<Ok(Height8)>>

Malformed(m) ==
    /\ m.type = "Binary"
    /\ \/ m.parse # "Ok"
       \/ m.header.kind = "Subscription"

\* C20: the step that handles a protocol-malformed frame puts nothing into
\* any sink, changes no registry entry and no cursor, and leaves the worker in
\* its loop on the same connection.
C20_MalformedDropped ==
    [][\A m \in FaultFrames :
         Malformed(m) =>
            \/ /\ UNCHANGED <<workerVars, channels, sent>>
               /\ pc' = "connected"
               /\ epoch' = epoch
            \/ ~Inbound(m, TRUE)]_vars

\* the message is one whose handling fails for one frame or one subscription
\* in the legacy worker: a Text message, a binary message that does not
\* decode, a frame routed to a sink whose receiver was dropped
LegacyLocalFault(m) ==
    \/ m.type = "Text"
    \/ /\ m.type = "Binary"
       /\ \/ m.parse # "Ok"
          \/ LegacyHandleResult(m, TRUE) = "Custom"

\* C19: in the legacy worker, a step that handles a message with a local
\* fault leaves the worker running and leaves the sink of every other
\* registered id open.
C19_LegacyLocalFault ==
    [][\A m \in LegacyFrames :
         LegacyLocalFault(m) =>
            \/ /\ pc' = "connected"
               /\ \A j \in OtherIds(m) :
                    subscriptions[j] # NoSink => channels'[subscriptions[j]].tx
            \/ ~LegacyInbound(m, TRUE)]_vars

\* the ids request has handed out so far
Submitted == {IdSeq[k] : k \in 1..Len(calls)}

\* C21: once the worker has processed every operation submitted, and before
\* any message of the server, the registry holds one entry for each of the
\* ids submitted.
C21_RegistryHoldsAll ==
    (pc = "connected" /\ operations = <<>>) => Registered = Submitted

\* C21, amended: operate leaves an entry for the id exactly when its write to
\* the socket succeeds, so once every operation submitted has been processed
\* the registry holds one entry for each id whose write succeeded (the sinks
\* of the others have been closed).
C21_RegistryHoldsWritten ==
    /\ [](operations = <<>> =>
            Registered = {IdSeq[k] : k \in {j \in 1..Len(calls) : channels[j].tx}})
    /\ [][\A ok \in BOOLEAN :
            operations # <<>> =>
               \/ Registered' = IF ok THEN Registered \cup {Head(operations).id}
                                      ELSE Registered \ {Head(operations).id}
               \/ ~Operate(ok)]_vars

\* C21 happens: two operations were submitted while two handles existed, both
\* were processed with successful writes, and both ids are registered
C21_Witness ==
    /\ handles = 2
    /\ Len(calls) = 2
    /\ operations = <<>>
    /\ Registered = Ids
    /\ \A c \in Chans : channels[c].tx

\* the step handles an End frame for id i
EndProcessed(i) ==
    \E m \in LoopFrames :
       /\ m.type = "Binary"
       /\ m.header.kind = "End"
       /\ m.header.id = i
       /\ Inbound(m, TRUE)

\* C22: in every step that removes an id from the registry, either an End
\* frame for that id is processed or the receiver of its sink had already
\* been dropped.
C22_RemovedOnlyByEnd ==
    [][\A i \in Ids :
         (subscriptions[i] # NoSink /\ subscriptions'[i] = NoSink) =>
            \/ IsDisconnected(subscriptions[i])
            \/ EndProcessed(i)]_vars

\* C22, amended: in every step that removes an id from the registry, either
\* an End frame for that id is processed, or the receiver of its sink had
\* already been dropped, or the worker has run out of reconnection attempts
\* and ends, which discards the whole registry.
C22_RemovedByEndOrShutdown ==
    [][\A i \in Ids :
         (subscriptions[i] # NoSink /\ subscriptions'[i] = NoSink) =>
            \/ IsDisconnected(subscriptions[i])
            \/ GiveUp
            \/ EndProcessed(i)]_vars

\* C22 happens: A's entry was removed after its caller dropped the stream,
\* while B, whose receiver is connected and which has received two errors, is
\* still registered after a reconnect
C22_Witness ==
    /\ pc = "connected"
    /\ epoch = 1
    /\ subscription_requests["A"] # NoRequest
    /\ subscriptions["A"] = NoSink
    /\ ~channels[1].rx
    /\ subscriptions["B"] = 2
    /\ channels[2].rx
    /\ SentItems(2) = <<Err("ErrorMsg", Height8), Err("ErrorMsg", Height8)>>

\* the End frames of StreamFrames
EndFrames == {m \in StreamFrames : m.header.kind = "End"}

\* C23: processing an End frame for a registered id removes its entry and
\* closes its sink; processing an End frame for an id that has no entry (a
\* second End, or an End for an id never registered) changes nothing of the
\* registries and the sinks; handle returns Ok(()) in both cases and the id
\* has no entry afterwards.
C23_EndIdempotent ==
    [][\A m \in EndFrames :
         LET i == m.header.id
             c == subscriptions[i]
         IN
         \/ /\ HandleResult(m, TRUE) = "none"
            /\ subscriptions'[i] = NoSink
            /\ UNCHANGED <<subscription_requests, subscription_cursor, sent>>
            /\ IF c = NoSink
               THEN UNCHANGED <<subscriptions, channels>>
               ELSE /\ subscriptions' = [subscriptions EXCEPT ![i] = NoSink]
                    /\ ~channels'[c].tx
                    /\ channels' = [channels EXCEPT ![c].tx = FALSE]
         \/ ~Inbound(m, TRUE)]_vars

\* C23 happens: A took a chunk and was completed by an End frame, its sink is
\* closed with the caller still holding the stream, and the last step was an
\* inbound frame handled after B had been registered
C23_Witness ==
    /\ subscription_requests["A"] # NoRequest
    /\ subscriptions["A"] = NoSink
    /\ SentItems(1) = <<Ok(Height8)>>
    /\ channels[1].rx
    /\ ~channels[1].tx
    /\ subscriptions["B"] = 2
    /\ wrote = {}

\* the step handles a Close message received from the server
CloseReceived ==
    \E m \in LoopFrames : m.type = "Close" /\ Inbound(m, TRUE)

\* C24: a read error, the end of the stream, or a Close message observed on
\* the inbound branch puts the worker into reconnection in that same
\* iteration.
C24_CloseForcesReconnect ==
    [][(ReadFailure \/ CloseReceived) => pc' = "reconnecting"]_vars

\* C25: when the connection is re-established, the resends that fail abort
\* nothing: the request of every other retained id is written, the worker is
\* connected again (attempt_reconnect returns true), and no entry of the
\* registries is removed.
C25_FailedResendTolerated ==
    [][\A failed \in SUBSET Ids :
         \/ /\ pc' = "connected"
            /\ RequestIds(wrote') = ReplayIds \ failed
            /\ UNCHANGED <<workerVars, channels>>
         \/ ~ConnectOk(failed)]_vars

\* C25 happens: both ids were registered and B received a chunk before the
\* disconnect; on the new connection the resend for A failed, the one for B
\* was written, and both are still registered
C25_Witness ==
    /\ pc = "connected"
    /\ epoch = 1
    /\ RequestIds(wrote) = {"B"}
    /\ subscriptions["A"] = 1
    /\ subscriptions["B"] = 2
    /\ Len(sent[2]) = 1
    /\ sent[2][1].epoch = 0

\* C26: the iteration whose keep-alive Ping fails to be written changes no
\* registry entry, cursor or sink, leaves the worker connected and running,
\* and writes nothing; the interval can elapse again, and whenever a tick is
\* due on a connected worker a Ping can be sent.
C26_FailedPingNonFatal ==
    /\ [][Tick(FALSE) =>
            /\ UNCHANGED <<workerVars, channels, sent, operations, attempts, epoch>>
            /\ pc' = "connected"
            /\ wrote' = {}]_vars
    /\ []((pc = "connected" /\ ~tickDue) => ENABLED TimerFires)
    /\ []((pc = "connected" /\ tickDue) => ENABLED Tick(TRUE))

\* C26 happens: on the connection made after a disconnect, with A registered
\* and holding an error item, nothing is written in the last iteration, no tick is
\* due and the worker is connected
C26_Witness ==
    /\ pc = "connected"
    /\ epoch = 1
    /\ ~tickDue
    /\ wrote = {}
    /\ subscriptions["A"] = 1
    /\ SentItems(1) = <<Err("ErrorMsg", Height8)>>
    /\ operations # <<>>

\* C27: every iteration of main_loop handles one event, the keep-alive tick
\* before a queued operation before the socket: an inbound message or a read
\* failure is handled only when no tick is due and no operation is queued, an
\* operation only when no tick is due; the tick iteration leaves the queue,
\* the registries and the sinks alone, the operation iteration takes exactly
\* one operation and forwards nothing, and the inbound iteration leaves the
\* queue alone and forwards at most one item.
C27_OneEventByPriority ==
    [][/\ \A m \in LoopFrames :
            \/ /\ ~tickDue
               /\ operations = <<>>
               /\ operations' = operations
               /\ TotalSent' <= TotalSent + 1
            \/ ~Inbound(m, TRUE)
       /\ ReadFailure => (~tickDue /\ operations = <<>>)
       /\ \A ok \in BOOLEAN :
            /\ Operate(ok) =>
                  /\ ~tickDue
                  /\ operations' = Tail(operations)
                  /\ sent' = sent
            /\ Tick(ok) =>
                  /\ UNCHANGED <<operations, workerVars, channels, sent>>
                  /\ wrote' \subseteq {WPing}]_vars

\* C27 happens: with A registered and holding an error item, a tick and an
\* operation were ready together; the Ping has been written and the
\* operation is still queued
C27_Witness ==
    /\ pc = "connected"
    /\ ~tickDue
    /\ wrote = {WPing}
    /\ Len(operations) = 1
    /\ subscriptions["A"] = 1
    /\ SentItems(1) = <<Err("ErrorMsg", Height8)>>

\* C28: a request encoded as the worker encodes it and then decoded by the
\* frame decoder comes back with its logical id and its cursor (a Header has
\* no field for the format and the deltas flag).
C28_RoundTrip ==
    (codec_in.tag = "request" /\ codec_out # NoCodec) =>
       /\ codec_out.tag = "Ok"
       /\ codec_out.header.id = codec_in.req.id
       /\ codec_out.header.cursor = codec_in.req.cursor

\* the positions of the newline bytes of d
Newlines(d) == {k \in 1..Len(d) : d[k] = Newline}
\* the least element of a non-empty set of positions
First(S) == CHOOSE k \in S : \A j \in S : k <= j

\* C29: the line decoder fails on a frame without a newline and on a frame
\* whose bytes before the first newline do not parse as a header; otherwise
\* it returns the header of those bytes and, as payload, exactly the bytes
\* after the first newline, later newlines included, empty when nothing
\* follows it.
C29_SplitsAtFirstNewline ==
    (codec_in.tag = "frame" /\ codec_out # NoCodec) =>
       LET d == codec_in.data IN
       IF Newlines(d) = {}
       THEN codec_out = DecodeErr("UnexpectedMessageFormat")
       ELSE LET k == First(Newlines(d))
                line == from_slice(SubSeq(d, 1, k - 1))
            IN
            IF line.tag = "Err"
            THEN codec_out = DecodeErr("SerdeJson")
            ELSE /\ codec_out.tag = "Ok"
                 /\ codec_out.header = line.header
                 /\ Len(codec_out.data) = Len(d) - k
                 /\ \A j \in 1..(Len(d) - k) : codec_out.data[j] = d[k + j]

\* C29 happens: a Continue frame of A with cursor 10 was decoded and its
\* payload holds a newline
C29_Witness ==
    /\ codec_in.tag = "frame"
    /\ codec_out.tag = "Ok"
    /\ codec_out.header = [kind |-> "Continue", id |-> "A", cursor |-> "10"]
    /\ codec_out.data = <<72, Newline, 73>>

\* C30: the trailer decoder fails on every frame shorter than 21 bytes and on
\* every frame whose flag byte, the first of the last 21, has one of the bits
\* 0x08, 0x10, 0x20 that no flag defines; otherwise it returns as payload
\* exactly the bytes before the last 21 (none for a frame of 21 bytes), the
\* id of the 16 bytes after the flag byte and the counter of the last 4.
C30_TrailerDecoder ==
    (codec_in.tag = "trailer" /\ codec_out # NoCodec) =>
       LET d == codec_in.data
           n == Len(d)
       IN
       IF n < 21
       THEN codec_out.tag = "Err"
       ELSE IF (d[n - 20] \div 8) % 8 # 0
       THEN codec_out.tag = "Err"
       ELSE /\ codec_out.tag = "Ok"
            /\ codec_out.data = SubSeq(d, 1, n - 21)
            /\ (n = 21) => codec_out.data = <<>>
            /\ \E i \in Ids :
                  /\ SubSeq(d, n - 19, n - 4) = UuidLe(i)
                  /\ codec_out.header.id = UuidBytes(i)
            /\ codec_out.header.counter = 258
            /\ ("END" \in codec_out.header.marker) = ((d[n - 20] \div 4) % 2 = 1)

\* C30 happens: a frame of exactly 21 bytes with the flags CONTINUE and END
\* was decoded, with an empty payload
C30_Witness ==
    /\ codec_in.tag = "trailer"
    /\ Len(codec_in.data) = 21
    /\ codec_out.tag = "Ok"
    /\ codec_out.data = <<>>
    /\ codec_out.header.marker = {"CONTINUE", "END"}
    /\ codec_out.header.id = UuidBytes("A")

\* C31: is_done holds only when every handle is dropped, no operation is
\* queued and no subscription is registered; and once every handle is
\* dropped, the queue is drained and every subscription has ended, the
\* legacy worker eventually stops.
C31_LegacyStopsWhenDone ==
    /\ [](is_done => (handles = 0 /\ operations = <<>> /\ Registered = {}))
    /\ (handles = 0 /\ operations = <<>> /\ Registered = {}) ~> (pc = "terminated")

\* the string latest-N
LatestMinus(n) == [tag |-> "str", text |-> "latest-", n |-> n]

\* C32: a Bound serializes as the integer n for Exact(n), as "latest" for
\* Latest, as "latest-N" for FromLatest(N) and as "none" for Subscribe.
C32_BoundWire ==
    (codec_in.tag = "bound" /\ codec_out # NoCodec) =>
       LET b == codec_in.bound IN
       CASE b.kind = "Exact" -> codec_out = SerI64(b.n)
         [] b.kind = "Latest" -> codec_out = SerStr("latest")
         [] b.kind = "FromLatest" -> codec_out = LatestMinus(b.n)
         [] b.kind = "Subscribe" -> codec_out = SerStr("none")

\* C32, amended: a Bound serializes as the integer n for Exact(n), as
\* "latest" for Latest, as the integer -N for FromLatest(N) with N not above
\* i64::MAX, and as "none" for Subscribe.
C32_BoundWireNegative ==
    (codec_in.tag = "bound" /\ codec_out # NoCodec) =>
       LET b == codec_in.bound IN
       CASE b.kind = "Exact" -> codec_out = SerI64(b.n)
         [] b.kind = "Latest" -> codec_out = SerStr("latest")
         [] b.kind = "FromLatest" -> (b.n <= MaxI64 => codec_out = SerI64(0 - b.n))
         [] b.kind = "Subscribe" -> codec_out = SerStr("none")

\* C32 happens: the bound three blocks before the latest was serialized, as -3
C32_Witness ==
    /\ codec_in.tag = "bound"
    /\ codec_in.bound = FromLatest(3)
    /\ codec_out = SerI64(-3)

\* C33: every id that has a registered sink has a retained request, and no
\* step of the running worker removes a retained request.
C33_LiveSinkHasRequest ==
    /\ [](Registered \subseteq ReplayIds)
    /\ [][pc' # "terminated" =>
            \A i \in ReplayIds : subscription_requests'[i] # NoRequest]_vars

\* C33 happens: after a reconnect A is registered with its request retained,
\* and B, which took an error item and was ended, is no longer registered
\* while its request is still retained
C33_Witness ==
    /\ pc = "connected"
    /\ epoch = 1
    /\ subscriptions["A"] = 1
    /\ subscription_requests["A"].id = "A"
    /\ subscriptions["B"] = NoSink
    /\ subscription_requests["B"].id = "B"
    /\ Len(sent[2]) = 1
    /\ ~channels[2].tx

\* the ids of the operations queued
QueuedIds == {operations[k].id : k \in 1..Len(operations)}

\* C34: while the worker reconnects no queued operation is processed; the
\* replay of a successful reconnection leaves the queue as it is and writes
\* no request of a queued operation; operations are then taken from the head
\* of the queue, one per iteration, each registered and written once; and
\* when the budget is exhausted the sink of every queued operation is dropped
\* with nothing enqueued to it.
C34_QueuedDuringReconnect ==
    /\ [](pc = "reconnecting" => ~ENABLED (\E ok \in BOOLEAN : Operate(ok)))
    /\ [][/\ \A failed \in SUBSET Ids :
                ConnectOk(failed) =>
                   /\ operations' = operations
                   /\ QueuedIds \cap RequestIds(wrote') = {}
                   /\ \A i \in QueuedIds : subscriptions'[i] = NoSink
          /\ Operate(TRUE) =>
                /\ operations' = Tail(operations)
                /\ RequestIds(wrote') = {Head(operations).id}
                /\ subscriptions'[Head(operations).id] = Head(operations).sink
          /\ GiveUp =>
                \A k \in 1..Len(operations) :
                   /\ ~channels'[operations[k].sink].tx
                   /\ channels'[operations[k].sink].queue = <<>>
                   /\ sent'[operations[k].sink] = <<>>]_vars

\* C34 happens: A was registered and took a chunk before the disconnect; B,
\* not part of the replay, has been registered and written on the new
\* connection
C34_Witness ==
    /\ pc = "connected"
    /\ epoch = 1
    /\ Len(sent[1]) = 1
    /\ sent[1][1].epoch = 0
    /\ subscriptions["B"] = 2
    /\ RequestIds(wrote) = {"B"}
    /\ sent[2] = <<>>

\* C35: the reconnecting worker ends only in the step in which
\* attempt_reconnect has run out of attempts; as long as it has not, the
\* worker is running, and with every handle dropped and no subscription
\* registered it still sends its keep-alive pings and still reconnects.
C35_RunsUntilBudgetExhausted ==
    /\ [][(pc # "terminated" /\ pc' = "terminated") =>
            (pc = "reconnecting" /\ attempts >= RECONNECT_ATTEMPTS /\ GiveUp)]_vars
    /\ []((pc = "connected" /\ handles = 0 /\ Registered = {}) =>
            \/ ENABLED TimerFires
            \/ ENABLED Tick(TRUE)
            \/ ENABLED (\E ok \in BOOLEAN : Operate(ok)))
    /\ []((pc = "reconnecting" /\ attempts < RECONNECT_ATTEMPTS) =>
            ENABLED ConnectOk({}))

\* C35 happens: every handle is dropped, A has ended and nothing is
\* registered, and the worker, reconnected after a disconnect, has just sent
\* a keep-alive ping
C35_Witness ==
    /\ pc = "connected"
    /\ epoch = 1
    /\ handles = 0
    /\ operations = <<>>
    /\ Registered = {}
    /\ subscription_requests["A"].id = "A"
    /\ wrote = {WPing}

C37_NoEmptyChunkYielded ==
    /\ [](\A c \in Chans : \A k \in 1..Len(yielded[c]) : Substantial(yielded[c][k]))
    /\ [][\A c \in Chans :
            yielded'[c] # yielded[c] =>
               /\ channels[c].queue # <<>>
               /\ Substantial(Head(channels[c].queue))
               /\ yielded'[c] = Append(yielded[c], Head(channels[c].queue))
               /\ channels'[c].queue = Tail(channels[c].queue)]_vars
    /\ [][\A c \in Chans :
            (channels[c].queue # <<>> /\ ~Substantial(Head(channels[c].queue))) =>
               \/ yielded' = yielded
               \/ ~StreamNext(c)]_vars
    /\ [][\A i \in Ids :
            LET c == SinkOf(i) IN
            (c # NoSink /\ ~IsDisconnected(c)) =>
               \/ channels'[c].queue = Append(channels[c].queue, Ok(<<>>))
               \/ ~Inbound(Frame("Continue", i, NoCursor, <<>>), TRUE)]_vars

\* C37 happens: the sink of A was sent an empty chunk and then an error, and
\* the stream, read to its end, yielded the error alone
C37_Witness ==
    /\ SentItems(1) = <<Ok(<<>>), Err("ErrorMsg", Height8)>>
    /\ yielded[1] = <<Err("ErrorMsg", Height8)>>
    /\ over[1]

\* the step is a legacy tick that returns an error: the socket closed or
\* failed, or handle returned an error
LegacyTickFails ==
    \/ LegacyReadFailure
    \/ \E m \in LegacyFrames :
          /\ LegacyHandleResult(m, TRUE) # "none"
          /\ LegacyInbound(m, TRUE)

\* C38: a legacy tick that returns an error ends the worker with every sink
\* closed and the registry empty; once the worker has ended no sink is open,
\* a stream polled with its queue empty returns None, and every request call
\* made returns BackendShutDown and queues nothing.
C38_LegacyShutdownEndsStreams ==
    /\ [][\/ /\ pc' = "terminated"
              /\ Registered' = {}
              /\ \A c \in Chans :
                    /\ ~channels'[c].tx
                    /\ channels'[c].queue = channels[c].queue
           \/ ~LegacyTickFails]_vars
    /\ [](pc = "terminated" => (Registered = {} /\ \A c \in Chans : ~channels[c].tx))
    /\ [][\A c \in Chans :
            (pc = "terminated" /\ channels[c].queue = <<>>) =>
               \/ over'[c]
               \/ ~StreamNext(c)]_vars
    /\ [][(pc = "terminated" /\ calls' # calls) =>
            /\ calls' = Append(calls, "BackendShutDown")
            /\ UNCHANGED <<operations, channels, subscriptions>>]_vars

\* C38 happens: the stream of the first call yielded one chunk, then a tick
\* failed while its subscription was registered and handles were alive; the
\* stream has ended and the second call returned BackendShutDown
C38_Witness ==
    /\ pc = "terminated"
    /\ ~done
    /\ handles > 0
    /\ SentItems(1) = <<Ok(Height8)>>
    /\ yielded[1] = <<Ok(Height8)>>
    /\ over[1]
    /\ calls = <<"Stream", "BackendShutDown">>

\* the flags in the order the legacy handle_binary tests them, and the first
\* of them a marker holds ("NONE" when it holds none of them)
DispatchOrder == <<"END", "START", "ERROR", "CONTINUE">>
FirstFlag(marker) ==
    IF \E k \in 1..Len(DispatchOrder) : DispatchOrder[k] \in marker
    THEN DispatchOrder[CHOOSE k \in 1..Len(DispatchOrder) :
                          /\ DispatchOrder[k] \in marker
                          /\ \A j \in 1..(k - 1) : DispatchOrder[j] \notin marker]
    ELSE "NONE"

\* C39: the legacy worker handles a decoded frame by the first flag of END,
\* START, ERROR, CONTINUE its marker holds: END removes the entry and closes
\* its sink and nothing is delivered; START changes nothing; ERROR, CONTINUE
\* and a marker with none of the four deliver to the registered, connected
\* sink of the id exactly one item: the error message, the payload, or the
\* malformed-format error.
C39_LegacyDispatchOrder ==
    [][\A m \in DispatchFrames :
         LET f == FirstFlag(m.header.marker)
             c == SinkOf(m.header.id)
         IN
         \/ ~LegacyInbound(m, TRUE)
         \/ CASE f = "END" ->
                   /\ subscriptions' = [subscriptions EXCEPT ![m.header.id] = NoSink]
                   /\ channels' = CloseSink(channels, c)
                   /\ sent' = sent
              [] f = "START" ->
                   UNCHANGED <<subscriptions, channels, sent>>
              [] OTHER ->
                   (c # NoSink /\ ~IsDisconnected(c)) =>
                      /\ subscriptions' = subscriptions
                      /\ SentItems(c)' =
                            Append(SentItems(c),
                                   CASE f = "ERROR" -> Err("ErrorMsg", m.data)
                                     [] f = "CONTINUE" -> Ok(m.data)
                                     [] OTHER -> Err("UnexpectedMessageFormat", <<>>))
                      /\ \A d \in Chans \ {c} : sent'[d] = sent[d]]_vars

\* C39 happens: the sink of A was sent the malformed-format error of a frame
\* without any of the four flags and then ended; the sink of B was sent the
\* error message of an ERROR frame and is registered
C39_Witness ==
    /\ pc = "connected"
    /\ SentItems(1) = <<Err("UnexpectedMessageFormat", <<>>)>>
    /\ subscriptions["A"] = NoSink
    /\ ~channels[1].tx
    /\ channels[1].rx
    /\ SentItems(2) = <<Err("ErrorMsg", Height8)>>
    /\ subscriptions["B"] = 2
====
